---- MODULE Spec2Model ----
(***************************************************************************)
(* A model of the segment-detection-and-matching engine of the worker.     *)
(*                                                                         *)
(* Numbers.  The code computes in floating point; the model computes the   *)
(* same quantities exactly, in fixed point:                                *)
(*   - a sub-score (rms_score, label_score, model_score) is an integer     *)
(*     number of 1/10000ths (ScoreOne = 1.0);                              *)
(*   - a weight is an integer number of 1/1000ths;                         *)
(*   - a per-second probability is an integer number of 1e-7ths            *)
(*     (ProbOne = 1.0), i.e. weight * sub-score;                           *)
(*   - an average is kept as the pair <<sum, count>> and compared by       *)
(*     cross-multiplication;                                               *)
(*   - a match score or lyric score is an integer number of 1/100ths       *)
(*     (the code rounds both to 2 decimals).                               *)
(***************************************************************************)
EXTENDS Integers, Sequences, FiniteSets, TLC

VARIABLES
    \* ---- detect_song_segments (worker/segment/detect.py) ----
    audio,              \* the audio file: [exists, decodable, rms_values, labels,
                        \* svd_scores, svd_raises]
    params,             \* keyword arguments of detect_song_segments
    pc,                 \* position inside detect_song_segments
    song_probs,         \* per-second song probability (1e-7ths)
    label_scores,       \* per-second label_score (1/10000ths)
    confidence_scores,  \* per-second confidence score (1e-7ths)
    raw_segments,       \* output of _segments_from_probs
    merged,             \* _merge_segments: merged
    merged_confidences, \* _merge_segments: merged_confidences, as <<sum, count>>
    next_raw,           \* _merge_segments: index of the next raw interval of the loop
    decision,           \* the locals of the last iteration of the merge loop
    segments,           \* the returned list of SongSegment
    \* ---- filter_short_segments (worker/segment/detect.py) ----
    flt_segments,       \* argument segments
    flt_params,         \* arguments min_duration, min_confidence
    flt_result,         \* [returned, value]: the list returned, once returned
    \* ---- audio_match and the catalog (worker/matching) ----
    catalog_store,      \* rows of the songs table of the default database
    index_cache,        \* the lru_cache of get_catalog_index: [key, value]
    chromaprint,        \* what importing chromaprint gives in this process
    am_call,            \* the last call of audio_match and its outcome
    \* ---- match_lyrics and rerank_with_lyrics (worker/matching) ----
    lyrics_store,       \* the song_lyrics table: song_id -> lyrics_text or NoLyrics
    rapidfuzz,          \* NoFuzz, or the partial_ratio rapidfuzz gives (0..100)
    rr_args,            \* arguments of rerank_with_lyrics: segment, transcript, candidates
    rr_call,            \* outcome of the call: lyrics_scores and the returned candidate
    \* ---- build_training_samples (worker/matching/training.py) ----
    tr_args,            \* arguments: audio, comments, window_sec, use_lyrics_rerank
    tr_pc,              \* "loop" inside the for loop, "done" returned, "raised"
    tr_next,            \* index of the comment of the next iteration
    tr_samples,         \* the local list samples
    tr_windows,         \* the segments handed to audio_match, one per call
    tr_choices,         \* per comment with candidates: what lines 34-46 chose from
    \* ---- summarize_training (worker/matching/training.py) ----
    sm_samples,         \* argument samples
    sm_call,            \* [made, raised, value]: outcome of the call
    \* ---- the match loop of process_video (worker/pipeline.py) ----
    pv_args,            \* audio, filtered_segments, config.use_lyrics_rerank
    pv_titles,          \* title and original_artist of the catalog songs
    pv_pc,              \* "loop" inside the for loop, "done", "raised"
    pv_next,            \* index of the segment of the next iteration
    pv_matches,         \* the local list matches
    pv_decided,         \* per match: whether a catalog candidate was chosen
    \* ---- _compute_svd_scores (worker/segment/detect.py) ----
    sc_env,             \* what each stage finds in this process, total_seconds
    sc_pc,              \* the stage to try next: "custom", "pyannote", "vocal";
                        \* "done" returned, "raised"
    sc_tried,           \* the stages entered, in order
    sc_result,          \* the value returned (NoScores for None)
    \* ---- the operations that wait for an external tool ----
    tl_env,             \* the tools of this process, the arguments of the call
    tl_op,              \* "separate_vocals", "transcribe" or "classify"
    tl_pc,              \* "start"; "waiting" inside the call of the tool;
                        \* "done"; "raised"
    tl_result,          \* the value returned
    \* ---- _youtube_api_request (worker/crawler/youtube.py) ----
    rq_endpoint,        \* the endpoint argument
    rq_pc,              \* "try" before an attempt, "sleep" before the back-off, "done", "raised"
    rq_attempt,         \* the loop variable attempt
    rq_log,             \* what each urlopen attempt gave, in order
    rq_slept,           \* seconds spent in time.sleep
    rq_result,          \* the value returned: "payload" or "None"
    \* ---- process_channel (worker/pipeline.py) ----
    ch_flag,            \* the videos table: video -> processed (0, 1), NoRow without row
    ch_pc,              \* "idle" between runs; "loop" in process_channel; inside
                        \* process_video: "segments", "marked"
    ch_queue,           \* the videos left to process in this run
    ch_cur,             \* process_video: the video, its filtered segments, those recorded
    ch_last,            \* per video, the last call of process_video: its outcome
    ch_on_flagged,      \* process_video was called on a video whose flag was 1
    \* ---- collect_archived_comment_training (worker/pipeline.py) ----
    ly_comments,        \* the timestamped comments of the video: title and artist hints
    ly_songs,           \* the number of rows of the songs table
    ly_store,           \* the song_lyrics table: song_id -> the source of its row
    ly_store0,          \* the song_lyrics table when the operation started
    ly_pc,              \* "comments", "songs", "done"
    ly_unique,          \* the values of unique_songs, in insertion order
    ly_updates,         \* lyrics_updates
    ly_writes           \* the calls of upsert_song_lyrics: song_id, whether it had a row

detVars == <<audio, params, pc, song_probs, label_scores, confidence_scores,
             raw_segments, merged, merged_confidences, next_raw, decision,
             segments>>

fltVars == <<flt_segments, flt_params, flt_result>>

amVars == <<catalog_store, index_cache, chromaprint, am_call>>

rrVars == <<lyrics_store, rapidfuzz, rr_args, rr_call>>

trVars == <<tr_args, tr_pc, tr_next, tr_samples, tr_windows, tr_choices>>

smVars == <<sm_samples, sm_call>>

pvVars == <<pv_args, pv_titles, pv_pc, pv_next, pv_matches, pv_decided>>

scVars == <<sc_env, sc_pc, sc_tried, sc_result>>

tlVars == <<tl_env, tl_op, tl_pc, tl_result>>

rqVars == <<rq_endpoint, rq_pc, rq_attempt, rq_log, rq_slept, rq_result>>

chVars == <<ch_flag, ch_pc, ch_queue, ch_cur, ch_last, ch_on_flagged>>

lyVars == <<ly_comments, ly_songs, ly_store, ly_store0, ly_pc, ly_unique, ly_updates, ly_writes>>

vars == <<detVars, fltVars, amVars, rrVars, trVars, smVars, pvVars, scVars, tlVars, rqVars, chVars, lyVars>>

\* the variables of the other components, for each component (the training
\* builder and the pipeline run the matcher and the lyrics scorer)
notDetVars == <<fltVars, amVars, rrVars, trVars, smVars, pvVars, scVars, tlVars, rqVars, chVars, lyVars>>
notFltVars == <<detVars, amVars, rrVars, trVars, smVars, pvVars, scVars, tlVars, rqVars, chVars, lyVars>>
notAmVars == <<detVars, fltVars, rrVars, trVars, smVars, pvVars, scVars, tlVars, rqVars, chVars, lyVars>>
notRrVars == <<detVars, fltVars, trVars, smVars, pvVars, scVars, tlVars, rqVars, chVars, lyVars>>
notTrVars == <<detVars, fltVars, smVars, pvVars, scVars, tlVars, rqVars, chVars, lyVars>>
notSmVars == <<detVars, fltVars, amVars, rrVars, trVars, pvVars, scVars, tlVars, rqVars, chVars, lyVars>>
notPvVars == <<detVars, fltVars, trVars, smVars, scVars, tlVars, rqVars, chVars, lyVars>>
notScVars == <<detVars, fltVars, amVars, rrVars, trVars, smVars, pvVars, tlVars, rqVars, chVars, lyVars>>
notTlVars == <<detVars, fltVars, amVars, rrVars, trVars, smVars, pvVars, scVars, rqVars, chVars, lyVars>>
notRqVars == <<detVars, fltVars, amVars, rrVars, trVars, smVars, pvVars, scVars, tlVars, chVars, lyVars>>
notChVars == <<detVars, fltVars, amVars, rrVars, trVars, smVars, pvVars, scVars, tlVars, rqVars, lyVars>>
notLyVars == <<detVars, fltVars, amVars, rrVars, trVars, smVars, pvVars, scVars, tlVars, rqVars, chVars>>

----------------------------------------------------------------------------
(* Bounds of the model. *)

\* longest audio file, in seconds (one RMS window per second)
MaxSec == 5
\* longest list of segments handed to filter_short_segments
MaxSegments == 3
\* largest number of rows of the songs table
MaxSongs == 2
\* longest transcript, in tokens and separators
MaxTranscript == 2
\* number of comments handed to build_training_samples
MaxHints == 2
\* number of samples handed to summarize_training
MaxSamples == 3
\* longest list of videos fetch_videos returns
MaxVideos == 2
\* number of timestamped comments of a video
MaxComments == 3

----------------------------------------------------------------------------
(* Fixed-point units and generic helpers. *)

ScoreOne == 10 * 1000
ProbOne == 1000 * ScoreOne

Range(s) == {s[i] : i \in 1..Len(s)}

Min2(a, b) == IF a <= b THEN a ELSE b
Max2(a, b) == IF a >= b THEN a ELSE b

MaxOfSeq(s) == CHOOSE x \in Range(s) : \A y \in Range(s) : y <= x

RECURSIVE SumSeq(_)
SumSeq(s) == IF s = <<>> THEN 0 ELSE s[1] + SumSeq(Tail(s))

\* Python slice s[a:b] for 0 <= a, with 0-based half-open indices.
Slice(s, a, b) == SubSeq(s, a + 1, Min2(b, Len(s)))

\* sorted(xs)[k], k 0-based: the value with at most k smaller elements and
\* more than k elements not above it.
KthSmallest(s, k) ==
    CHOOSE x \in Range(s) :
        /\ Cardinality({i \in 1..Len(s) : s[i] < x}) <= k
        /\ Cardinality({i \in 1..Len(s) : s[i] <= x}) > k

----------------------------------------------------------------------------
(* detect.py: parameter defaults and score tables. *)

\* model_weight, rms_weight, label_weight defaults, in 1/1000ths
ModelWeight == 600
RmsWeight == 250
LabelWeight == 150
\* weights of the blend without a model (0.6 * rms_score + 0.4 * label_score)
NoModelRmsWeight == 600
NoModelLabelWeight == 400
\* threshold = max(100, int(median_rms * 1.4))
RmsFloor == 100

NoLabel == "None"
Labels == {"music", "speech", "noise", NoLabel}

\* _label_score
LabelScore(label) ==
    CASE label = "music" -> ScoreOne
      [] label = "speech" -> (3 * ScoreOne) \div 10
      [] label = "noise" -> ScoreOne \div 10
      [] OTHER -> ScoreOne \div 2

\* detect_song_segments, line 46: the label sub-score of one second;
\* labels = <<>> stands for "no classifier" (labels is None).
LabelScoreAt(labels, index) ==
    IF labels # <<>> THEN LabelScore(labels[index]) ELSE ScoreOne

\* threshold = max(100, int(median_rms * 1.4)), lines 36-37
RmsThreshold(rms_list) ==
    Max2(RmsFloor, (KthSmallest(rms_list, Len(rms_list) \div 2) * 14) \div 10)

\* max_rms = max(rms_list) or 1, line 38
MaxRms(rms_list) == IF MaxOfSeq(rms_list) = 0 THEN 1 ELSE MaxOfSeq(rms_list)

\* rms_score of one second, lines 45-48
RmsScore(rms_list, index) ==
    LET score == (rms_list[index] * ScoreOne) \div MaxRms(rms_list)
    IN  IF rms_list[index] < RmsThreshold(rms_list) THEN score \div 2 ELSE score

\* song_probs[index], lines 49-55; svd = <<>> stands for svd_scores is None
SongProbAt(rms_list, labels, svd, index) ==
    IF svd # <<>>
    THEN Min2(ProbOne, ModelWeight * svd[index]
                        + RmsWeight * RmsScore(rms_list, index)
                        + LabelWeight * LabelScoreAt(labels, index))
    ELSE Min2(ProbOne, NoModelRmsWeight * RmsScore(rms_list, index)
                        + NoModelLabelWeight * LabelScoreAt(labels, index))

\* confidence_scores[index], lines 53 and 56
ConfidenceAt(rms_list, labels, svd, index) ==
    IF svd # <<>>
    THEN 1000 * svd[index]
    ELSE SongProbAt(rms_list, labels, svd, index)

\* _segments_from_probs: the loop of lines 85-92 from position index (1-based
\* here), current_start = -1 standing for None, then lines 93-94.
RECURSIVE SegScan(_, _, _, _, _)
SegScan(probs, min_song_prob, index, current_start, acc) ==
    IF index > Len(probs)
    THEN IF current_start # -1
         THEN Append(acc, <<current_start, Len(probs)>>)
         ELSE acc
    ELSE IF probs[index] >= min_song_prob
         THEN SegScan(probs, min_song_prob, index + 1,
                      IF current_start = -1 THEN index - 1 ELSE current_start, acc)
         ELSE IF current_start # -1
              THEN SegScan(probs, min_song_prob, index + 1, -1,
                           Append(acc, <<current_start, index - 1>>))
              ELSE SegScan(probs, min_song_prob, index + 1, -1, acc)

\* SegmentsFromProbs with lines 93-94 lost: a run that reaches the end of the
\* series is not closed.
SegmentsFromProbsNoTail(probs, min_song_prob) ==
    LET all == SegScan(probs, min_song_prob, 1, -1, <<>>)
    IN  IF probs # <<>> /\ probs[Len(probs)] >= min_song_prob
        THEN SubSeq(all, 1, Len(all) - 1)
        ELSE all

SegmentsFromProbs(probs, min_song_prob) == SegScan(probs, min_song_prob, 1, -1, <<>>)

\* _average_score: <<sum, count>> of scores[start:end] or [0.0]
AverageScore(scores, segment) ==
    LET segment_scores == Slice(scores, segment[1], segment[2])
    IN  IF segment_scores = <<>> THEN <<0, 1>>
        ELSE <<SumSeq(segment_scores), Len(segment_scores)>>

\* average >= threshold, for an average <<sum, count>>
AvgGe(avg, threshold) == avg[1] >= threshold * avg[2]

\* AllowedGap with max in place of min: one confident interval is enough.
AllowedGapEither(prev_confidence, current_confidence, p) ==
    IF AvgGe(prev_confidence, p.merge_confidence_threshold)
       \/ AvgGe(current_confidence, p.merge_confidence_threshold)
    THEN p.merge_gap_sec + p.merge_confidence_bonus_sec
    ELSE p.merge_gap_sec

\* AllowedGap with line 114 lost: the allowance starts from 0 instead of
\* merge_gap_sec.
AllowedGapBonusOnly(prev_confidence, current_confidence, p) ==
    IF AvgGe(prev_confidence, p.merge_confidence_threshold)
       /\ AvgGe(current_confidence, p.merge_confidence_threshold)
    THEN p.merge_confidence_bonus_sec
    ELSE 0

\* _merge_segments, lines 114-116: allowed_gap
AllowedGap(prev_confidence, current_confidence, p) ==
    IF AvgGe(prev_confidence, p.merge_confidence_threshold)
       /\ AvgGe(current_confidence, p.merge_confidence_threshold)
    THEN p.merge_gap_sec + p.merge_confidence_bonus_sec
    ELSE p.merge_gap_sec

\* MergeOne with the else of line 120 lost: the interval is appended even when
\* it was merged into the previous one.
MergeOneNoElse(mrg, mconfs, segment, scores, p) ==
    LET prev == mrg[Len(mrg)]
        current_confidence == AverageScore(scores, segment)
        gap == segment[1] - prev[2]
        allowed_gap == AllowedGap(mconfs[Len(mconfs)], current_confidence, p)
        m1 == IF gap <= allowed_gap
              THEN [mrg EXCEPT ![Len(mrg)] = <<prev[1], segment[2]>>] ELSE mrg
        c1 == IF gap <= allowed_gap
              THEN [mconfs EXCEPT ![Len(mconfs)] =
                        AverageScore(scores, <<prev[1], segment[2]>>)]
              ELSE mconfs
    IN  <<Append(m1, segment), Append(c1, current_confidence)>>

\* MergeOne with gap < allowed_gap in place of gap <= allowed_gap.
MergeOneStrict(mrg, mconfs, segment, scores, p) ==
    LET prev == mrg[Len(mrg)]
        current_confidence == AverageScore(scores, segment)
        gap == segment[1] - prev[2]
        allowed_gap == AllowedGap(mconfs[Len(mconfs)], current_confidence, p)
    IN  IF gap < allowed_gap
        THEN <<[mrg EXCEPT ![Len(mrg)] = <<prev[1], segment[2]>>],
               [mconfs EXCEPT ![Len(mconfs)] =
                    AverageScore(scores, <<prev[1], segment[2]>>)]>>
        ELSE <<Append(mrg, segment), Append(mconfs, current_confidence)>>

\* _merge_segments, lines 110-122: one iteration of the loop, for the raw
\* interval segment; the new <<merged, merged_confidences>>
MergeOne(mrg, mconfs, segment, scores, p) ==
    LET prev == mrg[Len(mrg)]
        prev_confidence == mconfs[Len(mconfs)]
        current_confidence == AverageScore(scores, segment)
        gap == segment[1] - prev[2]
        allowed_gap == AllowedGap(prev_confidence, current_confidence, p)
    IN  IF gap <= allowed_gap
        THEN <<[mrg EXCEPT ![Len(mrg)] = <<prev[1], segment[2]>>],
               [mconfs EXCEPT ![Len(mconfs)] =
                    AverageScore(scores, <<prev[1], segment[2]>>)]>>
        ELSE <<Append(mrg, segment), Append(mconfs, current_confidence)>>

\* round(num / den) to the nearest integer, ties to even (Python's round on a
\* value that is exact in binary)
RoundHalfEven(num, den) ==
    LET q == num \div den
        r == num % den
    IN  IF 2 * r < den THEN q
        ELSE IF 2 * r > den THEN q + 1
        ELSE IF q % 2 = 0 THEN q ELSE q + 1

\* _build_segment: confidence in 1/100ths, from the averages
\* average_prob = <<s1, n1>> and confidence = <<s2, n2>> (1e-7ths)
\* BlendedConfidence without the clamp of line 129.
BlendedConfidenceNoClamp(average_prob, confidence) ==
    LET num == average_prob[1] * confidence[2] + confidence[1] * average_prob[2]
        den == 2 * average_prob[2] * confidence[2] * (ProbOne \div 100)
    IN  RoundHalfEven(num, den)

BlendedConfidence(average_prob, confidence) ==
    LET num == average_prob[1] * confidence[2] + confidence[1] * average_prob[2]
        den == 2 * average_prob[2] * confidence[2] * (ProbOne \div 100)
        lo == 50 * den
        hi == 99 * den
    IN  RoundHalfEven(Min2(hi, Max2(lo, num)), den)

BuildSegment(start_sec, end_sec, probs, confidence) ==
    [start_sec |-> start_sec, end_sec |-> end_sec,
     confidence |-> BlendedConfidence(AverageScore(probs, <<start_sec, end_sec>>),
                                      confidence)]

----------------------------------------------------------------------------
(* detect_song_segments as a process: read and score, merge loop, build. *)

RmsVals == {0, 400}
SvdVals == {0, ScoreOne}

SeqsOf(S, n) == [1..n -> S]

\* what the classifier can return for n seconds: nothing (not installed), or
\* one label for the whole file (NoLabel: no segment covers the second)
LabelInputs(n) == {<<>>} \cup {[i \in 1..n |-> l] : l \in Labels}

\* what the model scorer can return for n seconds: None, or a 0/1 vector
SvdInputs(n) == {<<>>} \cup SeqsOf(SvdVals, n)

\* the files: a missing one, one that wave.open cannot read as WAVE data,
\* and the WAVE files of 0..max_sec seconds
\* and for each of these what the classifier and the chain of model scorers
\* give (svd_raises: an exception leaves _compute_svd_scores)
AudioInputs(max_sec) ==
    {[exists |-> e, decodable |-> FALSE, rms_values |-> <<>>, labels |-> <<>>,
      svd_scores |-> <<>>, svd_raises |-> FALSE] : e \in BOOLEAN}
    \cup
    UNION {{[exists |-> TRUE, decodable |-> TRUE, rms_values |-> r,
             labels |-> l, svd_scores |-> s, svd_raises |-> FALSE] :
              r \in SeqsOf(RmsVals, n), l \in LabelInputs(n), s \in SvdInputs(n)}
           \cup
           {[exists |-> TRUE, decodable |-> TRUE, rms_values |-> r,
             labels |-> l, svd_scores |-> <<>>, svd_raises |-> TRUE] :
              r \in SeqsOf(RmsVals, n), l \in LabelInputs(n)}
           : n \in 0..max_sec}

ParamInputs ==
    [min_song_prob : {(40 * ProbOne) \div 100, (55 * ProbOne) \div 100},
     merge_gap_sec : {0, 1},
     merge_confidence_threshold : {(70 * ProbOne) \div 100},
     merge_confidence_bonus_sec : {1}]

NoDecision == [taken |-> FALSE]

DetectInit ==
    /\ audio \in AudioInputs(MaxSec)
    /\ params \in ParamInputs
    /\ pc = "start"
    /\ song_probs = <<>>
    /\ label_scores = <<>>
    /\ confidence_scores = <<>>
    /\ raw_segments = <<>>
    /\ merged = <<>>
    /\ merged_confidences = <<>>
    /\ next_raw = 0
    /\ decision = NoDecision
    /\ segments = <<>>

\* lines 28-33: the file is missing or holds no frame: return []
DetectEmpty ==
    /\ pc = "start"
    /\ ~audio.exists \/ (audio.decodable /\ audio.rms_values = <<>>)
    /\ pc' = "done"
    /\ segments' = <<>>
    /\ UNCHANGED <<audio, params, song_probs, label_scores, confidence_scores,
                   raw_segments, merged, merged_confidences, next_raw, decision,
                   notDetVars>>

\* line 30 with _read_rms_values line 176: wave.open raises for a file that
\* is not readable WAVE data, and nothing catches the exception
DetectReadRaises ==
    /\ pc = "start"
    /\ audio.exists /\ ~audio.decodable
    /\ pc' = "raised"
    /\ UNCHANGED <<audio, params, song_probs, label_scores, confidence_scores,
                   raw_segments, merged, merged_confidences, next_raw, decision,
                   segments, notDetVars>>

\* line 40: an exception leaves _compute_svd_scores, and nothing catches it
DetectScorerRaises ==
    /\ pc = "start"
    /\ audio.exists /\ audio.decodable /\ audio.rms_values # <<>>
    /\ audio.svd_raises
    /\ pc' = "raised"
    /\ UNCHANGED <<audio, params, song_probs, label_scores, confidence_scores,
                   raw_segments, merged, merged_confidences, next_raw, decision,
                   segments, notDetVars>>

\* lines 35-58 and _merge_segments lines 105-108
DetectScore ==
    /\ pc = "start"
    /\ audio.exists /\ audio.decodable /\ audio.rms_values # <<>>
    /\ ~audio.svd_raises
    /\ label_scores' = [i \in 1..Len(audio.rms_values) |->
                            LabelScoreAt(audio.labels, i)]
    /\ song_probs' = [i \in 1..Len(audio.rms_values) |->
                          SongProbAt(audio.rms_values, audio.labels,
                                     audio.svd_scores, i)]
    /\ confidence_scores' = [i \in 1..Len(audio.rms_values) |->
                                 ConfidenceAt(audio.rms_values, audio.labels,
                                              audio.svd_scores, i)]
    /\ raw_segments' = SegmentsFromProbs(song_probs', params.min_song_prob)
    /\ IF raw_segments' = <<>>
       THEN /\ merged' = <<>>
            /\ merged_confidences' = <<>>
            /\ next_raw' = 0
            /\ pc' = "build"
       ELSE /\ merged' = <<raw_segments'[1]>>
            /\ merged_confidences' = <<AverageScore(confidence_scores', raw_segments'[1])>>
            /\ next_raw' = 2
            /\ pc' = "merge"
    /\ UNCHANGED <<audio, params, decision, segments, notDetVars>>

\* _merge_segments lines 109-122: one iteration of the loop
MergeStep ==
    /\ pc = "merge"
    /\ next_raw <= Len(raw_segments)
    /\ LET segment == raw_segments[next_raw]
           prev == merged[Len(merged)]
           prev_confidence == merged_confidences[Len(merged_confidences)]
           current_confidence == AverageScore(confidence_scores, segment)
           res == MergeOne(merged, merged_confidences, segment,
                           confidence_scores, params)
       IN  /\ merged' = res[1]
           /\ merged_confidences' = res[2]
           /\ decision' = [taken |-> TRUE,
                           prev |-> prev,
                           current |-> segment,
                           gap |-> segment[1] - prev[2],
                           prev_confidence |-> prev_confidence,
                           current_confidence |-> current_confidence,
                           allowed_gap |-> AllowedGap(prev_confidence,
                                                      current_confidence, params),
                           merged_before |-> Len(merged)]
    /\ next_raw' = next_raw + 1
    /\ UNCHANGED <<audio, params, pc, song_probs, label_scores,
                   confidence_scores, raw_segments, segments, notDetVars>>

\* _merge_segments line 123: the loop is over
MergeDone ==
    /\ pc = "merge"
    /\ next_raw > Len(raw_segments)
    /\ pc' = "build"
    /\ UNCHANGED <<audio, params, song_probs, label_scores, confidence_scores,
                   raw_segments, merged, merged_confidences, next_raw, decision,
                   segments, notDetVars>>

\* lines 66-69
DetectBuild ==
    /\ pc = "build"
    /\ segments' = [i \in 1..Len(merged) |->
                        BuildSegment(merged[i][1], merged[i][2], song_probs,
                                     merged_confidences[i])]
    /\ pc' = "done"
    /\ UNCHANGED <<audio, params, song_probs, label_scores, confidence_scores,
                   raw_segments, merged, merged_confidences, next_raw, decision,
                   notDetVars>>

DetectNext ==
    \/ DetectEmpty
    \/ DetectReadRaises
    \/ DetectScorerRaises
    \/ DetectScore
    \/ MergeStep
    \/ MergeDone
    \/ DetectBuild

\* the detector is not running
DetectIdle ==
    /\ audio = [exists |-> FALSE, decodable |-> FALSE, rms_values |-> <<>>,
                labels |-> <<>>, svd_scores |-> <<>>, svd_raises |-> FALSE]
    /\ params = CHOOSE p \in ParamInputs : TRUE
    /\ pc = "idle"
    /\ song_probs = <<>>
    /\ label_scores = <<>>
    /\ confidence_scores = <<>>
    /\ raw_segments = <<>>
    /\ merged = <<>>
    /\ merged_confidences = <<>>
    /\ next_raw = 0
    /\ decision = NoDecision
    /\ segments = <<>>

----------------------------------------------------------------------------
(* filter_short_segments. *)

\* SongSegment.duration_sec, models.py
DurationSec(segment) == segment.end_sec - segment.start_sec

\* FilterKeep with and in place of or.
FilterKeepBoth(segment, min_duration, min_confidence) ==
    DurationSec(segment) >= min_duration /\ segment.confidence >= min_confidence

\* the condition of the comprehension, line 78
FilterKeep(segment, min_duration, min_confidence) ==
    DurationSec(segment) >= min_duration \/ segment.confidence >= min_confidence

\* the list comprehension of lines 75-79
RECURSIVE FilterShortSegments(_, _, _)
FilterShortSegments(segs, min_duration, min_confidence) ==
    IF segs = <<>> THEN <<>>
    ELSE LET rest == FilterShortSegments(Tail(segs), min_duration, min_confidence)
         IN  IF FilterKeep(Head(segs), min_duration, min_confidence)
             THEN <<Head(segs)>> \o rest
             ELSE rest

\* durations (seconds) and confidences (1/100ths) of the segments filtered
FilterDurations == {10, 60, 90}
FilterConfidences == {40, 60, 95}

\* a detector result: segment i starts at 100 * (i - 1) seconds
SegmentLists ==
    UNION {{[i \in 1..n |-> [start_sec |-> 100 * (i - 1),
                             end_sec |-> 100 * (i - 1) + d[i],
                             confidence |-> c[i]]] :
              d \in [1..n -> FilterDurations], c \in [1..n -> FilterConfidences]}
           : n \in 0..MaxSegments}

\* defaults of min_duration and min_confidence (line 73), and a stricter pair
FilterParamInputs ==
    {[min_duration |-> 60, min_confidence |-> 60],
     [min_duration |-> 90, min_confidence |-> 95]}

FilterInit ==
    /\ flt_segments \in SegmentLists
    /\ flt_params \in FilterParamInputs
    /\ flt_result = [returned |-> FALSE, value |-> <<>>]

FilterIdle ==
    /\ flt_segments = <<>>
    /\ flt_params = [min_duration |-> 60, min_confidence |-> 60]
    /\ flt_result = [returned |-> TRUE, value |-> <<>>]

FilterCall ==
    /\ ~flt_result.returned
    /\ flt_result' = [returned |-> TRUE,
                      value |-> FilterShortSegments(flt_segments,
                                                    flt_params.min_duration,
                                                    flt_params.min_confidence)]
    /\ UNCHANGED <<flt_segments, flt_params, notFltVars>>

----------------------------------------------------------------------------
(* catalog.py: the songs table and the cached CatalogIndex. *)

NoEmbedding == <<>>
EmbA == <<3, 4>>
EmbB == <<4, 3>>

\* A catalog is the tuple load_catalog returns: the rows ordered by song_id,
\* row i being the song of id i; embedding is NoEmbedding when the row has
\* none (or one that does not parse).
Song(id, embedding) == [song_id |-> id, embedding |-> embedding]

Catalogs ==
    UNION {{[i \in 1..n |-> Song(i, e[i])] : e \in [1..n -> {NoEmbedding, EmbA}]}
           : n \in 0..MaxSongs}

\* the songs table of any other database file: created empty by _connect
OtherCatalog == <<>>

\* load_catalog(db_path)
LoadCatalog(key, store) == IF key = "default" THEN store ELSE OtherCatalog

EmptyCache == [key |-> "empty", value |-> <<>>]

\* get_catalog_index under lru_cache(maxsize=1), lines 248-250: the cache
\* after a call with the arguments key; its value is what the call returns.
GetCatalogIndexCache(cache, key, store) ==
    IF cache.key = key THEN cache
    ELSE [key |-> key, value |-> LoadCatalog(key, store)]

----------------------------------------------------------------------------
(* audio_match.py *)

\* the audio files a call can name, by what opening and reading them gives
\* ("unopenable": missing, or not a WAVE file, so that wave.open raises)
AudioKinds == {"unopenable", "width1", "okA", "okB"}
\* <<start_sec, end_sec>>
Intervals == {<<5, 5>>, <<0, 60>>, <<4, 104>>}
NoConfidence == -1
\* the confidence argument, in 1/100ths
Confidences == {NoConfidence}

MatchInputs == [audio : AudioKinds, interval : Intervals, confidence : Confidences]

ChromaprintKinds == {"absent", "fingerprinter", "raises", "nofingerprint"}

\* the embedding _hash_to_embedding gives for the fingerprint of the file
FingerprintEmbedding(kind) == IF kind = "okA" THEN EmbA ELSE EmbB

\* _extract_segment_embedding, lines 51-63, with _read_audio_segment,
\* _load_chromaprint and _chromaprint_embedding:
\* [raised |-> TRUE] when an exception leaves it, else its value
\* (NoEmbedding for None).
ExtractSegmentEmbedding(in, chroma) ==
    CASE in.interval[2] <= in.interval[1] ->            \* line 73
             [raised |-> FALSE, value |-> NoEmbedding]
      [] OTHER ->
         IF in.audio = "unopenable"                     \* line 75: wave.open raises
         THEN [raised |-> TRUE, value |-> NoEmbedding]
         ELSE IF in.audio = "width1"                    \* line 79
         THEN [raised |-> FALSE, value |-> NoEmbedding]
         ELSE IF chroma = "absent"                      \* line 61
         THEN [raised |-> FALSE, value |-> NoEmbedding]
         ELSE IF chroma = "raises"                      \* lines 110-116
         THEN [raised |-> TRUE, value |-> NoEmbedding]
         ELSE IF chroma = "nofingerprint"               \* line 121
         THEN [raised |-> FALSE, value |-> NoEmbedding]
         ELSE [raised |-> FALSE, value |-> FingerprintEmbedding(in.audio)]

ISqrt(n) == CHOOSE r \in 0..n : r * r = n

Dot(left, right) ==
    SumSeq([i \in 1..Len(left) |-> left[i] * right[i]])

\* _cosine_similarity, as the fraction <<num, den>> (before the clamp the
\* value is dot / (left_norm * right_norm))
CosineSimilarity(left, right) ==
    IF Len(left) # Len(right) THEN <<0, 1>>
    ELSE LET dot == Dot(left, right)
             left_norm == ISqrt(Dot(left, left))
             right_norm == ISqrt(Dot(right, right))
         IN  IF left_norm = 0 \/ right_norm = 0 THEN <<0, 1>>
             ELSE <<Max2(0, Min2(left_norm * right_norm, dot)),
                    left_norm * right_norm>>

\* round(_embedding_score(similarity, confidence), 2), in 1/100ths:
\* similarity * (0.7 + confidence * 0.3), clamped to [0, 0.99]
EmbeddingScore(similarity, confidence) ==
    LET den == similarity[2] * 10
        num == similarity[1] * (700 + 3 * confidence)
    IN  RoundHalfEven(Max2(0, Min2(99 * den, num)), den)

\* FallbackScore with line 161 read as ((index + int(start_sec)) % 3) * 0.03.
FallbackScoreModOfSum(start_sec, end_sec, confidence, index) ==
    LET duration == Max2(0, end_sec - start_sec)
        base == 3600 + 12 * confidence + 5 * Min2(240, duration)
        offset == ((index + start_sec) % 3) * 180
    IN  RoundHalfEven(Max2(0, Min2(99 * 60, base - offset)), 60)

\* round(_fallback_score(start_sec, end_sec, confidence, index), 2), in
\* 1/100ths; all terms over the common denominator 6000
FallbackScore(start_sec, end_sec, confidence, index) ==
    LET duration == Max2(0, end_sec - start_sec)
        base == 3600 + 12 * confidence + 5 * Min2(240, duration)
        offset == (index + (start_sec % 3)) * 180
    IN  RoundHalfEven(Max2(0, Min2(99 * 60, base - offset)), 60)

\* lines 29-46: the candidate of the song at position (0-based)
Candidate(in, confidence, segment_embedding, song, position) ==
    IF segment_embedding # NoEmbedding /\ song.embedding # NoEmbedding
    THEN [song_id |-> song.song_id,
          match_score |-> EmbeddingScore(
              CosineSimilarity(segment_embedding, song.embedding), confidence),
          method |-> "audio-embedding"]
    ELSE [song_id |-> song.song_id,
          match_score |-> FallbackScore(in.interval[1], in.interval[2],
                                        confidence, position),
          method |-> "audio-fallback"]

\* InsertByScore placing a candidate before the ones of equal score.
InsertByScoreUnstable(sorted, c) ==
    LET k == Cardinality({i \in 1..Len(sorted) :
                              sorted[i].match_score > c.match_score})
    IN  SubSeq(sorted, 1, k) \o <<c>> \o SubSeq(sorted, k + 1, Len(sorted))

\* one insertion of the stable descending sort of line 47: the candidate
\* goes after every candidate whose score is not smaller
InsertByScore(sorted, c) ==
    LET k == Cardinality({i \in 1..Len(sorted) :
                              sorted[i].match_score >= c.match_score})
    IN  SubSeq(sorted, 1, k) \o <<c>> \o SubSeq(sorted, k + 1, Len(sorted))

\* candidates.sort(key=match_score, reverse=True), line 47
RECURSIVE SortByScoreFrom(_, _, _)
SortByScoreFrom(cands, i, acc) ==
    IF i > Len(cands) THEN acc
    ELSE SortByScoreFrom(cands, i + 1, InsertByScore(acc, cands[i]))

SortByScore(cands) == SortByScoreFrom(cands, 1, <<>>)

\* lines 22-48 once the embedding is extracted and the index fetched
RankCandidates(in, segment_embedding, songs) ==
    LET confidence == IF in.confidence = NoConfidence THEN 80 ELSE in.confidence
    IN  IF songs = <<>> THEN <<>>
        ELSE SortByScore([i \in 1..Len(songs) |->
                 Candidate(in, confidence, segment_embedding, songs[i], i - 1)])

NoCall == [made |-> FALSE]

MatchInit ==
    /\ catalog_store \in Catalogs
    /\ index_cache = EmptyCache
    /\ chromaprint \in ChromaprintKinds
    /\ am_call = NoCall

MatchIdle ==
    /\ catalog_store = <<>>
    /\ index_cache = EmptyCache
    /\ chromaprint = "absent"
    /\ am_call = NoCall

\* audio_match(audio_path, start_sec, end_sec, confidence=...): line 23 may
\* raise, and then the catalog index is not fetched
AudioMatch ==
    \E in \in MatchInputs :
        LET emb == ExtractSegmentEmbedding(in, chromaprint)
            cache == GetCatalogIndexCache(index_cache, "default", catalog_store)
        IN  IF emb.raised
            THEN /\ am_call' = [made |-> TRUE, input |-> in, store |-> catalog_store,
                                raised |-> TRUE, fallback |-> FALSE,
                                index |-> <<>>, result |-> <<>>]
                 /\ UNCHANGED <<catalog_store, index_cache, chromaprint, notAmVars>>
            ELSE /\ index_cache' = cache
                 /\ am_call' = [made |-> TRUE, input |-> in, store |-> catalog_store,
                                raised |-> FALSE,
                                fallback |-> emb.value = NoEmbedding,
                                index |-> cache.value,
                                result |-> RankCandidates(in, emb.value, cache.value)]
                 /\ UNCHANGED <<catalog_store, chromaprint, notAmVars>>

\* a call get_catalog_index(db_path) that names another database file
GetCatalogIndexOther ==
    /\ index_cache' = GetCatalogIndexCache(index_cache, "other", catalog_store)
    /\ UNCHANGED <<catalog_store, chromaprint, am_call, notAmVars>>

\* the rows a single write to the songs table (and song_embeddings) can
\* leave: a row appended, the last row deleted, or the embedding of one row
\* stored or removed
CatalogAfterWrite(store) ==
    {Append(store, Song(Len(store) + 1, e)) : e \in {NoEmbedding, EmbA}}
    \cup {SubSeq(store, 1, Len(store) - 1)}
    \cup {[store EXCEPT ![i].embedding =
               IF @ = NoEmbedding THEN EmbA ELSE NoEmbedding] : i \in 1..Len(store)}

\* the songs table is written (by the catalog's maintainer: nothing in the
\* worker inserts songs)
CatalogWrite ==
    /\ \E c \in CatalogAfterWrite(catalog_store) \cap Catalogs :
           c # catalog_store /\ catalog_store' = c
    /\ UNCHANGED <<index_cache, chromaprint, am_call, notAmVars>>

MatchNext == AudioMatch \/ GetCatalogIndexOther \/ CatalogWrite

----------------------------------------------------------------------------
(* lyrics_match.py and rerank.py *)

\* A text is a sequence of words, consecutive words being separated by one
\* blank; SP is additional white space (a blank or a newline), so that
\* <<SP>> is a text of white space only.
SP == " "
NoLyrics == <<>>
NoFuzz == -1

\* title, original_artist and aliases of the song of each id
SongTitle(id) ==
    CASE id = 1 -> <<"w1">> [] id = 2 -> <<"w3">> [] OTHER -> <<"w4", SP, "w1">>
SongArtist(id) == IF id = 3 THEN <<"w5">> ELSE <<"w2">>
SongAliases(id) == IF id = 2 THEN <<<<"w1">>>> ELSE <<>>
\* the lyrics a song has when the song_lyrics table holds a row for it
SongLyricsText(id) ==
    IF id = 2 THEN <<"w3", SP, "w3", SP, "w6">>
    ELSE <<"w1", SP, "w3", SP, "w4", SP, "w6">>

\* str.strip()
RECURSIVE StripLeft(_)
StripLeft(text) ==
    IF text # <<>> /\ Head(text) = SP THEN StripLeft(Tail(text)) ELSE text
RECURSIVE StripRight(_)
StripRight(text) ==
    IF text # <<>> /\ text[Len(text)] = SP
    THEN StripRight(SubSeq(text, 1, Len(text) - 1)) ELSE text
Strip(text) == StripRight(StripLeft(text))

\* _tokenize: the set of the white-space separated tokens
Tokenize(text) == {text[i] : i \in {j \in 1..Len(text) : text[j] # SP}}

\* " ".join(values)
RECURSIVE JoinSpace(_)
JoinSpace(values) ==
    IF values = <<>> THEN <<>>
    ELSE IF Len(values) = 1 THEN values[1]
    ELSE values[1] \o <<SP>> \o JoinSpace(Tail(values))

\* lines 34-42: the tokens of title, artist and aliases of the catalog song
\* of the candidate; no token when the catalog has no such song
KeywordTokens(catalog, song_id) ==
    IF \E i \in 1..Len(catalog) : catalog[i].song_id = song_id
    THEN Tokenize(JoinSpace(<<SongTitle(song_id), SongArtist(song_id)>>
                            \o SongAliases(song_id)))
    ELSE {}

\* LyricScore without the candidate's acoustic score:
\* round(min(0.99, similarity), 2)
LyricScoreTextOnly(tokens, lyrics_text, keyword_tokens, fuzz, match_score) ==
    LET lyrics_tokens == Tokenize(lyrics_text)
        target_tokens == IF lyrics_tokens # {} THEN lyrics_tokens ELSE keyword_tokens
        k == Cardinality(tokens \cap target_tokens)
        n == Max2(1, Cardinality(target_tokens))
        sim == IF fuzz # NoFuzz /\ fuzz * n > 100 * k THEN <<fuzz, 100>> ELSE <<k, n>>
    IN  RoundHalfEven(Min2(99 * sim[2], 100 * sim[1]), sim[2])

\* lines 32-59 for one candidate: the score, in 1/100ths.
\* similarity is the fraction <<k, n>> (or <<fuzz, 100>> when the fuzzy ratio
\* is larger); score = min(0.99, 0.5 * similarity + 0.1 * match_score), i.e.
\* (500 * k + match_score * n) / (10 * n) 1/100ths, rounded to 2 decimals.
\* With rapidfuzz installed the model takes one ratio for every comparison.
LyricScore(tokens, lyrics_text, keyword_tokens, fuzz, match_score) ==
    LET lyrics_tokens == Tokenize(lyrics_text)
        target_tokens == IF lyrics_tokens # {} THEN lyrics_tokens ELSE keyword_tokens
        k == Cardinality(tokens \cap target_tokens)
        n == Max2(1, Cardinality(target_tokens))
        sim == IF fuzz # NoFuzz /\ fuzz * n > 100 * k THEN <<fuzz, 100>> ELSE <<k, n>>
        den == 10 * sim[2]
    IN  RoundHalfEven(Min2(99 * den, 500 * sim[1] + match_score * sim[2]), den)

\* MatchLyrics with the early return of lines 22-23 lost.
MatchLyricsNoEarlyReturn(transcript, candidates, catalog, lyrics, fuzz) ==
    [i \in 1..Len(candidates) |->
        [song_id |-> candidates[i].song_id,
         score |-> LyricScore(Tokenize(Strip(transcript)),
                              lyrics[candidates[i].song_id],
                              KeywordTokens(catalog, candidates[i].song_id),
                              fuzz, candidates[i].match_score)]]

\* match_lyrics: the list of LyricsScore, scores in 1/100ths
MatchLyrics(transcript, candidates, catalog, lyrics, fuzz) ==
    IF Strip(transcript) = <<>>
    THEN [i \in 1..Len(candidates) |->
              [song_id |-> candidates[i].song_id, score |-> 0]]
    ELSE [i \in 1..Len(candidates) |->
              [song_id |-> candidates[i].song_id,
               score |-> LyricScore(Tokenize(Strip(transcript)),
                                    lyrics[candidates[i].song_id],
                                    KeywordTokens(catalog, candidates[i].song_id),
                                    fuzz, candidates[i].match_score)]]

\* rerank.py line 27: the dict song_id -> score built from the list (a later
\* entry of the same song_id replaces an earlier one), read with
\* .get(song_id, 0.0)
ScoreOf(scores, song_id) ==
    LET idx == {i \in 1..Len(scores) : scores[i].song_id = song_id}
    IN  IF idx = {} THEN 0
        ELSE scores[CHOOSE i \in idx : \A j \in idx : j <= i].score

\* rerank.py line 31: total, in 1e-5ths
\* (match_score + confidence * 0.05 + lyric_score * 0.1)
RerankTotal(candidate, confidence, lyric_score) ==
    1000 * candidate.match_score + 50 * confidence + 100 * lyric_score

\* PickBest with the last of the candidates of maximal total taken.
PickBestLast(candidates, totals) ==
    candidates[CHOOSE i \in 1..Len(candidates) :
                   /\ \A j \in 1..Len(candidates) : totals[j] <= totals[i]
                   /\ \A j \in (i + 1)..Len(candidates) : totals[j] < totals[i]]

\* rerank.py lines 33-34: the stable descending sort by total, then [0]:
\* the first candidate of maximal total
PickBest(candidates, totals) ==
    candidates[CHOOSE i \in 1..Len(candidates) :
                   /\ \A j \in 1..Len(candidates) : totals[j] <= totals[i]
                   /\ \A j \in 1..(i - 1) : totals[j] < totals[i]]

NoCandidate == [song_id |-> 0]

\* the candidate lists audio_match can hand over for an index of n songs: one
\* candidate per song, in any order, scores in 1/100ths
CandidateScores == {88, 90}
CandidateLists(n) ==
    {c \in [1..n -> [song_id : 1..n, match_score : CandidateScores,
                     method : {"audio-fallback"}]] :
        \A i, j \in 1..n : i # j => c[i].song_id # c[j].song_id}

TranscriptAlphabet == {SP, "w1", "w3"}
Transcripts == UNION {[1..n -> TranscriptAlphabet] : n \in 0..MaxTranscript}

RerankInit ==
    /\ \E n \in 0..MaxSongs :
           /\ catalog_store = [i \in 1..n |-> Song(i, NoEmbedding)]
           /\ lyrics_store \in
                  {l \in [1..n -> {NoLyrics} \cup {SongLyricsText(i) : i \in 1..n}] :
                       \A i \in 1..n : l[i] \in {NoLyrics, SongLyricsText(i)}}
           \* the candidates audio_match returned, or none
           /\ \E c \in CandidateLists(n) \cup {<<>>}, t \in Transcripts,
                 conf \in {60, 85} :
                  rr_args = [segment_confidence |-> conf, transcript |-> t,
                             candidates |-> c]
    \* audio_match has fetched the index when it produced the candidates
    /\ index_cache = [key |-> "default", value |-> catalog_store]
    /\ chromaprint = "absent"
    /\ am_call = NoCall
    /\ rapidfuzz \in {NoFuzz, 0, 80}
    /\ rr_call = [returned |-> FALSE]

RerankIdle ==
    /\ lyrics_store = <<>>
    /\ rapidfuzz = NoFuzz
    /\ rr_args = [segment_confidence |-> 0, transcript |-> <<>>, candidates |-> <<>>]
    /\ rr_call = [returned |-> TRUE]

\* RerankNoCandidates with the test of line 19 after the call of match_lyrics.
RerankNoCandidatesAfterLyrics ==
    /\ ~rr_call.returned
    /\ rr_args.candidates = <<>>
    /\ rr_call' = [returned |-> TRUE, matched_lyrics |-> TRUE,
                   lyrics_scores |-> <<>>, best |-> NoCandidate]
    /\ UNCHANGED <<lyrics_store, rapidfuzz, rr_args, amVars, notRrVars>>

\* rerank_with_lyrics, lines 19-26: no candidate
RerankNoCandidates ==
    /\ ~rr_call.returned
    /\ rr_args.candidates = <<>>
    /\ rr_call' = [returned |-> TRUE, matched_lyrics |-> FALSE,
                   lyrics_scores |-> <<>>, best |-> NoCandidate]
    /\ UNCHANGED <<lyrics_store, rapidfuzz, rr_args, amVars, notRrVars>>

\* rerank_with_lyrics, lines 27-34, with the call of match_lyrics (which
\* fetches the cached catalog index when the transcript is not empty)
RerankWithLyrics ==
    /\ ~rr_call.returned
    /\ rr_args.candidates # <<>>
    /\ LET empty == Strip(rr_args.transcript) = <<>>
           cache == IF empty THEN index_cache
                    ELSE GetCatalogIndexCache(index_cache, "default", catalog_store)
           scores == MatchLyrics(rr_args.transcript, rr_args.candidates,
                                 cache.value, lyrics_store, rapidfuzz)
           totals == [i \in 1..Len(rr_args.candidates) |->
                         RerankTotal(rr_args.candidates[i],
                                     rr_args.segment_confidence,
                                     ScoreOf(scores, rr_args.candidates[i].song_id))]
       IN  /\ index_cache' = cache
           /\ rr_call' = [returned |-> TRUE, matched_lyrics |-> TRUE,
                          lyrics_scores |-> scores,
                          best |-> PickBest(rr_args.candidates, totals)]
    /\ UNCHANGED <<lyrics_store, rapidfuzz, rr_args, catalog_store, chromaprint,
                   am_call, notRrVars>>

RerankNext == RerankNoCandidates \/ RerankWithLyrics

----------------------------------------------------------------------------
(* training.py *)

\* str.lower() on the words of the model
Lower(text) == [i \in 1..Len(text) |-> IF text[i] = "W1" THEN "w1" ELSE text[i]]

\* _normalize, lines 95-96: text.strip().lower()
Normalize(text) == Lower(Strip(text))

\* the fields of the dataclass TrainingSample, models.py lines 53-61
TrainingSampleFields ==
    {"timestamp_sec", "expected_title", "expected_artist", "matched_title",
     "matched_artist", "match_score", "is_match"}

\* TrainingSample(**kwargs): the generated __init__ raises TypeError for a
\* keyword that is not a field and for a field without value
NewTrainingSample(kwargs) ==
    IF DOMAIN kwargs = TrainingSampleFields
    THEN [raised |-> FALSE, value |-> <<kwargs>>]
    ELSE [raised |-> TRUE, value |-> <<>>]

\* _segment_from_comment with the start not clamped at 0.
SegmentFromCommentUnclamped(comment, window_sec) ==
    [start_sec |-> comment.timestamp_sec - window_sec,
     end_sec |-> comment.timestamp_sec + window_sec,
     confidence |-> 85]

\* _segment_from_comment, lines 89-92
SegmentFromComment(comment, window_sec) ==
    [start_sec |-> Max2(0, comment.timestamp_sec - window_sec),
     end_sec |-> comment.timestamp_sec + window_sec,
     confidence |-> 85]

\* transcribe_segment, transcribe.py lines 26-37: the empty text for a
\* missing file or an empty interval, else what the recogniser gives
TranscribeSegment(audio_kind, start_sec, end_sec, asr_text) ==
    IF audio_kind = "unopenable" \/ end_sec <= start_sec \/ end_sec <= 0
    THEN <<>>
    ELSE asr_text

\* the comments: a timestamp and the expected title and artist (the song of
\* id 1, also written with other case and white space)
Comments ==
    [timestamp_sec : {10, 45}, song_title : {<<"w1">>, <<SP, "W1">>},
     original_artist : {<<"w2">>}]

CommentLists == UNION {[1..n -> Comments] : n \in 0..MaxHints}

\* what the recogniser can give for an interval
AsrTexts == {<<>>, <<"w3">>}

TrainInit ==
    /\ tr_args \in [audio : {"unopenable", "okA"}, comments : CommentLists,
                    window_sec : {0, 30}, use_lyrics_rerank : BOOLEAN]
    /\ tr_pc = "loop"
    /\ tr_next = 1
    /\ tr_samples = <<>>
    /\ tr_windows = <<>>
    /\ tr_choices = <<>>
    /\ catalog_store \in Catalogs
    /\ index_cache = EmptyCache
    /\ chromaprint \in {"absent", "fingerprinter"}
    /\ am_call = NoCall
    /\ lyrics_store = [i \in 1..Len(catalog_store) |-> NoLyrics]
    /\ rapidfuzz = NoFuzz
    /\ rr_args = [segment_confidence |-> 0, transcript |-> <<>>, candidates |-> <<>>]
    /\ rr_call = [returned |-> TRUE]

TrainIdle ==
    /\ tr_args = [audio |-> "okA", comments |-> <<>>, window_sec |-> 30,
                  use_lyrics_rerank |-> TRUE]
    /\ tr_pc = "done"
    /\ tr_next = 1
    /\ tr_samples = <<>>
    /\ tr_windows = <<>>
    /\ tr_choices = <<>>

\* TrainingTotal without the lyric term of line 43.
TrainingTotalNoLyrics(candidate, confidence, lyric_score) ==
    1000 * candidate.match_score + 50 * confidence

\* training.py lines 42-43: score, in 1e-5ths
\* (match_score + confidence * 0.05, then += lyric_score * 0.1)
TrainingTotal(candidate, confidence, lyric_score) ==
    (1000 * candidate.match_score + 50 * confidence) + 100 * lyric_score

\* training.py lines 35-46: best, from the lyric scores of line 38 (the sort
\* of line 45 is the stable descending sort PickBest models)
TrainingBest(segment, candidates, lyrics_scores, use_lyrics_rerank) ==
    IF use_lyrics_rerank
    THEN PickBest(candidates,
                  [i \in 1..Len(candidates) |->
                       TrainingTotal(candidates[i], segment.confidence,
                                     ScoreOf(lyrics_scores, candidates[i].song_id))])
    ELSE candidates[1]

\* lines 34-61 of build_training_samples for one comment with candidates:
\* the outcome of the construction of its TrainingSample
SampleOf(comment, segment, candidates, transcript, catalog, lyrics, fuzz, use_lyrics_rerank) ==
    LET lyrics_scores == MatchLyrics(transcript, candidates, catalog, lyrics, fuzz)
        best == TrainingBest(segment, candidates, lyrics_scores, use_lyrics_rerank)
        lyric_score == IF use_lyrics_rerank THEN ScoreOf(lyrics_scores, best.song_id)
                       ELSE 0
        is_match == /\ Normalize(SongTitle(best.song_id)) = Normalize(comment.song_title)
                    /\ Normalize(SongArtist(best.song_id))
                           = Normalize(comment.original_artist)
    IN  NewTrainingSample(
            [timestamp_sec |-> comment.timestamp_sec,
             expected_title |-> comment.song_title,
             expected_artist |-> comment.original_artist,
             matched_title |-> SongTitle(best.song_id),
             matched_artist |-> SongArtist(best.song_id),
             match_score |-> best.match_score,
             lyric_score |-> lyric_score,
             is_match |-> is_match])

\* one iteration of the loop of build_training_samples, lines 24-61
TrainHint ==
    /\ tr_pc = "loop"
    /\ tr_next <= Len(tr_args.comments)
    /\ \E asr_text \in AsrTexts :
        LET comment == tr_args.comments[tr_next]
            segment == SegmentFromComment(comment, tr_args.window_sec)
            in == [audio |-> tr_args.audio,
                   interval |-> <<segment.start_sec, segment.end_sec>>,
                   confidence |-> segment.confidence]
            emb == ExtractSegmentEmbedding(in, chromaprint)
            cache == GetCatalogIndexCache(index_cache, "default", catalog_store)
            candidates == RankCandidates(in, emb.value, cache.value)
            transcript == TranscribeSegment(tr_args.audio, segment.start_sec,
                                            segment.end_sec, asr_text)
            sample == SampleOf(comment, segment, candidates, transcript,
                               cache.value, lyrics_store, rapidfuzz,
                               tr_args.use_lyrics_rerank)
        IN  /\ tr_windows' = Append(tr_windows, segment)
            /\ tr_choices' =
                   IF emb.raised \/ candidates = <<>> THEN tr_choices
                   ELSE Append(tr_choices,
                               [segment |-> segment, candidates |-> candidates,
                                transcript |-> transcript,
                                index |-> cache.value,
                                best |-> TrainingBest(
                                    segment, candidates,
                                    MatchLyrics(transcript, candidates, cache.value,
                                                lyrics_store, rapidfuzz),
                                    tr_args.use_lyrics_rerank)])
            /\ IF emb.raised                      \* audio_match raises
               THEN /\ tr_pc' = "raised"
                    /\ UNCHANGED <<tr_next, tr_samples, index_cache>>
               ELSE /\ index_cache' = cache
                    /\ IF candidates = <<>>       \* lines 32-33: continue
                       THEN /\ tr_next' = tr_next + 1
                            /\ UNCHANGED <<tr_pc, tr_samples>>
                       ELSE IF sample.raised      \* TypeError of lines 51-60
                       THEN /\ tr_pc' = "raised"
                            /\ UNCHANGED <<tr_next, tr_samples>>
                       ELSE /\ tr_samples' = tr_samples \o sample.value
                            /\ tr_next' = tr_next + 1
                            /\ UNCHANGED tr_pc
    /\ UNCHANGED <<tr_args, catalog_store, chromaprint, am_call, rrVars, notTrVars>>

\* line 62: return samples
TrainDone ==
    /\ tr_pc = "loop"
    /\ tr_next > Len(tr_args.comments)
    /\ tr_pc' = "done"
    /\ UNCHANGED <<tr_args, tr_next, tr_samples, tr_windows, tr_choices, amVars, rrVars,
                   notTrVars>>

TrainNext == TrainHint \/ TrainDone

\* the TrainingSample objects a caller can hand to summarize_training
TrainingSamples ==
    [timestamp_sec : {10}, expected_title : {<<"w1">>},
     expected_artist : {<<"w2">>}, matched_title : {<<"w1">>, <<"w3">>},
     matched_artist : {<<"w2">>}, match_score : {70, 90}, is_match : BOOLEAN]

SampleLists == UNION {[1..n -> TrainingSamples] : n \in 0..MaxSamples}

\* sample.lyric_score, line 71: AttributeError for an object without it
HasLyricScore(sample) == "lyric_score" \in DOMAIN sample

\* summarize_training, lines 65-77; accuracy and lyrics_avg_score in
\* 1/1000ths, lyric scores in 1/100ths
SummarizeTraining(samples_list) ==
    IF samples_list = <<>>
    THEN [raised |-> FALSE,
          value |-> [total |-> 0, matched |-> 0, accuracy |-> 0,
                     lyrics_avg_score |-> 0]]
    ELSE IF \E i \in 1..Len(samples_list) : ~HasLyricScore(samples_list[i])
    THEN [raised |-> TRUE,
          value |-> [total |-> 0, matched |-> 0, accuracy |-> 0,
                     lyrics_avg_score |-> 0]]
    ELSE LET matched == Cardinality({i \in 1..Len(samples_list) :
                                         samples_list[i].is_match})
             total == Len(samples_list)
             lyrics_sum == SumSeq([i \in 1..total |-> samples_list[i].lyric_score])
         IN  [raised |-> FALSE,
              value |-> [total |-> total, matched |-> matched,
                         accuracy |-> RoundHalfEven(1000 * matched, total),
                         lyrics_avg_score |-> RoundHalfEven(10 * lyrics_sum, total)]]

SummaryInit ==
    /\ sm_samples \in SampleLists
    /\ sm_call = [made |-> FALSE]

SummaryIdle ==
    /\ sm_samples = <<>>
    /\ sm_call = [made |-> FALSE]

SummaryCall ==
    /\ ~sm_call.made
    /\ LET r == SummarizeTraining(sm_samples)
       IN  sm_call' = [made |-> TRUE, raised |-> r.raised, value |-> r.value]
    /\ UNCHANGED <<sm_samples, notSmVars>>

----------------------------------------------------------------------------
(* pipeline.py: the match loop of process_video *)

\* a stored embedding orthogonal to the embedding EmbA of the audio
EmbOrth == <<-4, 3>>

\* the title and artist build_song_match is given when there is no result
Unknown == <<"unknown">>

\* build_song_match, lines 230-237; score and confidence in 1/100ths:
\* confidence = round(min(0.99, score * segment.confidence), 2)
BuildSongMatch(segment, best_title, best_artist, score) ==
    [start_time |-> segment.start_sec,
     end_time |-> segment.end_sec,
     song_title |-> best_title,
     original_artist |-> best_artist,
     confidence |-> RoundHalfEven(Min2(99 * 100, score * segment.confidence), 100)]

\* line 290: sorted(candidates, key=match_score, reverse=True)[0]
TopByMatchScore(candidates) ==
    PickBest(candidates, [i \in 1..Len(candidates) |-> candidates[i].match_score])

\* rerank_with_lyrics(segment, transcript, candidates), rerank.py lines 14-34
RerankWithLyricsOf(segment, transcript, candidates, catalog, lyrics, fuzz) ==
    IF candidates = <<>> THEN NoCandidate
    ELSE LET scores == MatchLyrics(transcript, candidates, catalog, lyrics, fuzz)
             totals == [i \in 1..Len(candidates) |->
                           RerankTotal(candidates[i], segment.confidence,
                                       ScoreOf(scores, candidates[i].song_id))]
         IN  PickBest(candidates, totals)

\* the segments filter_short_segments lets through
PipelineSegments ==
    {[start_sec |-> 0, end_sec |-> 60, confidence |-> 60],
     [start_sec |-> 100, end_sec |-> 110, confidence |-> 95]}

PipelineSegmentLists == UNION {[1..n -> PipelineSegments] : n \in 0..MaxSegments}

\* the rows of the songs table: any title and artist, "unknown" included
TitleRows ==
    [title : {<<"w1">>, Unknown}, original_artist : {<<"w2">>, Unknown}]

PipelineInit ==
    /\ pv_args \in [audio : {"okA"}, filtered_segments : PipelineSegmentLists,
                    use_lyrics_rerank : BOOLEAN]
    /\ \E n \in 0..MaxSongs :
           /\ catalog_store \in [1..n -> UNION {{Song(i, e) : e \in {NoEmbedding, EmbOrth}}
                                                   : i \in 1..n}]
           /\ \A i \in 1..n : catalog_store[i].song_id = i
           /\ pv_titles \in [1..n -> TitleRows]
           /\ lyrics_store = [i \in 1..n |-> NoLyrics]
    /\ pv_pc = "loop"
    /\ pv_next = 1
    /\ pv_matches = <<>>
    /\ pv_decided = <<>>
    /\ index_cache = EmptyCache
    /\ chromaprint \in {"absent", "fingerprinter"}
    /\ am_call = NoCall
    /\ rapidfuzz = NoFuzz
    /\ rr_args = [segment_confidence |-> 0, transcript |-> <<>>, candidates |-> <<>>]
    /\ rr_call = [returned |-> TRUE]

PipelineIdle ==
    /\ pv_args = [audio |-> "okA", filtered_segments |-> <<>>,
                  use_lyrics_rerank |-> TRUE]
    /\ pv_titles = <<>>
    /\ pv_pc = "done"
    /\ pv_next = 1
    /\ pv_matches = <<>>
    /\ pv_decided = <<>>

\* one iteration of the loop of lines 265-293, in a process without speech
\* recogniser (transcribe_segment returns the empty text, transcribe.py
\* lines 36-37)
ProcessSegment ==
    /\ pv_pc = "loop"
    /\ pv_next <= Len(pv_args.filtered_segments)
    /\ LET segment == pv_args.filtered_segments[pv_next]
           in == [audio |-> pv_args.audio,
                  interval |-> <<segment.start_sec, segment.end_sec>>,
                  confidence |-> NoConfidence]
           emb == ExtractSegmentEmbedding(in, chromaprint)
           cache == GetCatalogIndexCache(index_cache, "default", catalog_store)
           candidates == RankCandidates(in, emb.value, cache.value)
           transcript == TranscribeSegment(pv_args.audio, segment.start_sec,
                                           segment.end_sec, <<>>)
           best == IF pv_args.use_lyrics_rerank
                   THEN RerankWithLyricsOf(segment, transcript, candidates,
                                           cache.value, lyrics_store, rapidfuzz)
                   ELSE TopByMatchScore(candidates)
           no_result == BuildSongMatch(segment, Unknown, Unknown, 0)
       IN  IF emb.raised
           THEN /\ pv_pc' = "raised"
                /\ UNCHANGED <<pv_next, pv_matches, pv_decided, index_cache>>
           ELSE /\ index_cache' = cache
                /\ pv_next' = pv_next + 1
                /\ UNCHANGED pv_pc
                /\ IF candidates = <<>>                       \* lines 268-276
                   THEN /\ pv_matches' = Append(pv_matches, no_result)
                        /\ pv_decided' = Append(pv_decided, FALSE)
                   ELSE IF pv_args.use_lyrics_rerank /\ best = NoCandidate
                   THEN /\ pv_matches' = Append(pv_matches, no_result)  \* lines 280-288
                        /\ pv_decided' = Append(pv_decided, FALSE)
                   ELSE /\ pv_matches' =                       \* lines 291-293
                               Append(pv_matches,
                                      BuildSongMatch(segment,
                                                     pv_titles[best.song_id].title,
                                                     pv_titles[best.song_id].original_artist,
                                                     best.match_score))
                        /\ pv_decided' = Append(pv_decided, TRUE)
    /\ UNCHANGED <<pv_args, pv_titles, catalog_store, chromaprint, am_call,
                   rrVars, notPvVars>>

\* the loop is over: lines 295-312
ProcessDone ==
    /\ pv_pc = "loop"
    /\ pv_next > Len(pv_args.filtered_segments)
    /\ pv_pc' = "done"
    /\ UNCHANGED <<pv_args, pv_titles, pv_next, pv_matches, pv_decided, amVars,
                   rrVars, notPvVars>>

PipelineNext == ProcessSegment \/ ProcessDone

----------------------------------------------------------------------------
(* detect.py: the chain of model scorers behind _compute_svd_scores *)

\* None
NoScores == <<>>

\* NormalizeScores with the zeros of line 267 put in front of the scores.
NormalizeScoresPadFront(scores, total_seconds) ==
    IF scores = <<>> THEN [i \in 1..total_seconds |-> 0]
    ELSE LET max_score == IF MaxOfSeq(scores) = 0 THEN 1 ELSE MaxOfSeq(scores)
             normalized == [i \in 1..Len(scores) |->
                               Min2(ScoreOne, (scores[i] * ScoreOne) \div max_score)]
         IN  IF Len(normalized) >= total_seconds
             THEN SubSeq(normalized, 1, total_seconds)
             ELSE [i \in 1..(total_seconds - Len(normalized)) |-> 0] \o normalized

\* _normalize_scores, lines 260-267; raw scores are non-negative numbers, the
\* result is in 1/10000ths
NormalizeScores(scores, total_seconds) ==
    IF scores = <<>> THEN [i \in 1..total_seconds |-> 0]
    ELSE LET max_score == IF MaxOfSeq(scores) = 0 THEN 1 ELSE MaxOfSeq(scores)
             normalized == [i \in 1..Len(scores) |->
                               Min2(ScoreOne, (scores[i] * ScoreOne) \div max_score)]
         IN  IF Len(normalized) >= total_seconds
             THEN SubSeq(normalized, 1, total_seconds)
             ELSE normalized \o [i \in 1..(total_seconds - Len(normalized)) |-> 0]

\* svd_model in this process: not installed; installed but its import
\* raises; without predict; predict raises; predict returns scores
CustomKinds == {"absent", "import_raises", "no_predict", "predict_raises", "ok"}

\* pyannote.audio in this process: the package pyannote is not installed
\* (importlib.util.find_spec("pyannote.audio") imports the parent package and
\* raises ModuleNotFoundError); the package is there without the submodule
\* audio; no Pipeline attribute; from_pretrained raises; the pipeline call
\* raises; the pipeline gives a timeline
PyannoteKinds ==
    {"package_absent", "module_absent", "no_pipeline", "pretrained_raises",
     "call_raises", "ok"}

\* the vocal isolation in this process: demucs is not on the PATH;
\* separate_vocals raises (the stem cannot be written); the stem is not
\* readable WAVE data; the stem is read
VocalKinds == {"no_backend", "separate_raises", "stem_unreadable", "ok"}

\* what predict returns, and the RMS values of the vocal stem
RawScores == {<<400>>, <<200, 400, 400>>, <<0, 0>>}

\* lines 233-243: 1.0 for the seconds of the timeline (here the last second)
PyannoteScores(total_seconds) ==
    [i \in 1..total_seconds |-> IF i = total_seconds THEN ScoreOne ELSE 0]

ScorerInit ==
    /\ sc_env \in [custom : CustomKinds, custom_scores : RawScores,
                   pyannote : PyannoteKinds, vocal : VocalKinds,
                   vocal_rms : {<<0, 0>>}, total_seconds : 1..MaxSec]
    /\ sc_pc = "custom"
    /\ sc_tried = <<>>
    /\ sc_result = NoScores

ScorerIdle ==
    /\ sc_env = [custom |-> "absent", custom_scores |-> <<0, 0>>,
                 pyannote |-> "module_absent", vocal |-> "no_backend",
                 vocal_rms |-> <<0, 0>>, total_seconds |-> 1]
    /\ sc_pc = "done"
    /\ sc_tried = <<>>
    /\ sc_result = NoScores

\* _compute_custom_svd_scores, lines 205-215, and lines 196-198
ScoreCustom ==
    /\ sc_pc = "custom"
    /\ sc_tried' = Append(sc_tried, "custom")
    /\ CASE sc_env.custom = "import_raises" ->       \* line 208, outside the try
                sc_pc' = "raised" /\ UNCHANGED sc_result
         [] sc_env.custom = "ok" ->
                /\ sc_pc' = "done"
                /\ sc_result' = NormalizeScores(sc_env.custom_scores,
                                                sc_env.total_seconds)
         [] OTHER ->                                  \* lines 207, 210, 214
                sc_pc' = "pyannote" /\ UNCHANGED sc_result
    /\ UNCHANGED <<sc_env, notScVars>>

\* _compute_pyannote_scores, lines 218-243, and lines 199-201
ScorePyannote ==
    /\ sc_pc = "pyannote"
    /\ sc_tried' = Append(sc_tried, "pyannote")
    /\ CASE sc_env.pyannote = "package_absent" ->    \* line 219 raises
                sc_pc' = "raised" /\ UNCHANGED sc_result
         [] sc_env.pyannote = "ok" ->
                /\ sc_pc' = "done"
                /\ sc_result' = PyannoteScores(sc_env.total_seconds)
         [] OTHER ->                                  \* lines 220, 224, 228, 232
                sc_pc' = "vocal" /\ UNCHANGED sc_result
    /\ UNCHANGED <<sc_env, notScVars>>

\* _compute_vocal_activity_scores, lines 246-257, and line 202
ScoreVocal ==
    /\ sc_pc = "vocal"
    /\ sc_tried' = Append(sc_tried, "vocal")
    /\ CASE sc_env.vocal \in {"separate_raises", "stem_unreadable"} ->
                sc_pc' = "raised" /\ UNCHANGED sc_result   \* lines 252, 255
         [] sc_env.vocal = "ok" ->
                /\ sc_pc' = "done"
                /\ sc_result' = NormalizeScores(sc_env.vocal_rms,
                                                sc_env.total_seconds)
         [] OTHER ->                                  \* line 250: None
                sc_pc' = "done" /\ sc_result' = NoScores
    /\ UNCHANGED <<sc_env, notScVars>>

ScorerNext == ScoreCustom \/ ScorePyannote \/ ScoreVocal

----------------------------------------------------------------------------
(* The operations that wait for an external tool: separate_vocals (demucs), *)
(* _transcribe_with_whisper (ffmpeg) and _classify_audio_segments (the      *)
(* segmenter).  Each call of a tool is a blocking call: subprocess.run      *)
(* without timeout=, or a plain call of the library.                        *)

\* demucs: not on the PATH; exits having written the stem; exits without the
\* stem; never exits
DemucsKinds == {"absent", "writes_stem", "no_stem", "hangs"}

\* ffmpeg: not on the PATH; exits with status 0; exits with another status;
\* never exits
FfmpegKinds == {"absent", "exit0", "exit_nonzero", "hangs"}

\* inaSpeechSegmenter: not installed; returns its segmentation; raises;
\* never returns
SegmenterKinds == {"absent", "answers", "raises", "hangs"}

ToolsInit ==
    /\ tl_env \in [demucs : DemucsKinds, ffmpeg : FfmpegKinds,
                   segmenter : SegmenterKinds, stem_cached : BOOLEAN,
                   interval : {<<5, 5>>, <<0, 60>>}]
    /\ tl_op \in {"separate_vocals", "transcribe", "classify"}
    /\ tl_pc = "start"
    /\ tl_result = "none"

ToolsIdle ==
    /\ tl_env = [demucs |-> "absent", ffmpeg |-> "absent", segmenter |-> "absent",
                 stem_cached |-> FALSE, interval |-> <<5, 5>>]
    /\ tl_op = "classify"
    /\ tl_pc = "done"
    /\ tl_result = "none"

\* separate_vocals, vocal.py lines 19-30, with _run_demucs lines 37-39: up to
\* the call of subprocess.run, and from its return
SeparateVocals ==
    /\ tl_op = "separate_vocals"
    /\ \/ /\ tl_pc = "start"
          /\ IF tl_env.stem_cached                         \* lines 21-22
             THEN tl_pc' = "done" /\ tl_result' = "stem"
             ELSE IF tl_env.demucs = "absent"              \* lines 29-30
             THEN tl_pc' = "done" /\ tl_result' = "copy"
             ELSE tl_pc' = "waiting" /\ UNCHANGED tl_result   \* line 39
       \/ /\ tl_pc = "waiting"
          /\ tl_env.demucs # "hangs"                       \* the process exited
          /\ tl_pc' = "done"
          /\ tl_result' = IF tl_env.demucs = "writes_stem"
                          THEN "stem" ELSE "copy"          \* lines 26-30
    /\ UNCHANGED <<tl_env, tl_op, notTlVars>>

\* _transcribe_with_whisper, transcribe.py lines 48-61, with
\* _extract_audio_segment lines 64-96: up to subprocess.run (line 92), and
\* from its return
ExtractAudioSegment ==
    /\ tl_op = "transcribe"
    /\ \/ /\ tl_pc = "start"
          /\ IF tl_env.interval[2] <= tl_env.interval[1]   \* lines 65-66
                \/ tl_env.ffmpeg = "absent"                \* lines 67-68
             THEN tl_pc' = "done" /\ tl_result' = "empty_text"   \* lines 54-55
             ELSE tl_pc' = "waiting" /\ UNCHANGED tl_result   \* line 92
       \/ /\ tl_pc = "waiting"
          /\ tl_env.ffmpeg # "hangs"                       \* the process exited
          /\ tl_pc' = "done"
          /\ tl_result' = IF tl_env.ffmpeg = "exit0"
                          THEN "text" ELSE "empty_text"    \* lines 93-96, 54-61
    /\ UNCHANGED <<tl_env, tl_op, notTlVars>>

\* _classify_audio_segments, detect.py lines 142-153: up to the call of the
\* segmenter (line 149), and from its return
ClassifyAudioSegments ==
    /\ tl_op = "classify"
    /\ \/ /\ tl_pc = "start"
          /\ IF tl_env.segmenter = "absent"                \* lines 143-144
             THEN tl_pc' = "done" /\ tl_result' = "no_labels"
             ELSE tl_pc' = "waiting" /\ UNCHANGED tl_result   \* line 149
       \/ /\ tl_pc = "waiting"
          /\ tl_env.segmenter = "answers"
          /\ tl_pc' = "done" /\ tl_result' = "labels"      \* lines 150-153
       \/ /\ tl_pc = "waiting"
          /\ tl_env.segmenter = "raises"                   \* nothing catches it
          /\ tl_pc' = "raised" /\ UNCHANGED tl_result
    /\ UNCHANGED <<tl_env, tl_op, notTlVars>>

ToolsNext == SeparateVocals \/ ExtractAudioSegment \/ ClassifyAudioSegments

----------------------------------------------------------------------------
(* crawler/youtube.py: _youtube_api_request *)

\* the endpoints the crawler asks for
Endpoints == {"channels", "playlistItems", "search", "videos"}

\* what one urlopen attempt can give: a 200 response with a JSON payload;
\* a response of another status; HTTPError; URLError; a 200 response whose
\* payload is not JSON; any other exception (a read that times out, bytes
\* that are not UTF-8)
AttemptKinds ==
    {"ok200", "other_status", "http_error", "url_error", "bad_json", "other_error"}

\* range(1, 4), line 320: the last value of attempt
LastAttempt == 3

\* AttemptOutcome with JSONDecodeError handled like the network errors.
AttemptOutcomeRetryJson(kind) ==
    CASE kind = "ok200" -> "return_payload"
      [] kind = "other_status" -> "return_none"
      [] kind \in {"http_error", "url_error", "bad_json"} -> "retry"
      [] OTHER -> "raise"

\* lines 321-346: what the body of the loop does with an attempt
AttemptOutcome(kind) ==
    CASE kind = "ok200" -> "return_payload"                    \* lines 330-331
      [] kind \in {"other_status", "bad_json"} -> "return_none" \* lines 323-329, 344-346
      [] kind \in {"http_error", "url_error"} -> "retry"       \* lines 332-343
      [] OTHER -> "raise"                                      \* not caught

\* 2 ** n
RECURSIVE Pow2(_)
Pow2(n) == IF n = 0 THEN 1 ELSE 2 * Pow2(n - 1)

RequestInit ==
    /\ rq_endpoint \in Endpoints
    /\ rq_pc = "try"
    /\ rq_attempt = 1
    /\ rq_log = <<>>
    /\ rq_slept = 0
    /\ rq_result = "none"

RequestIdle ==
    /\ rq_endpoint = "videos"
    /\ rq_pc = "done"
    /\ rq_attempt = 1
    /\ rq_log = <<>>
    /\ rq_slept = 0
    /\ rq_result = "none"

\* lines 321-346: one attempt
RequestAttempt ==
    /\ rq_pc = "try"
    /\ \E kind \in AttemptKinds :
        /\ rq_log' = Append(rq_log, kind)
        /\ CASE AttemptOutcome(kind) = "return_payload" ->
                    rq_pc' = "done" /\ rq_result' = "payload"
             [] AttemptOutcome(kind) = "return_none" ->
                    rq_pc' = "done" /\ rq_result' = "None"
             [] AttemptOutcome(kind) = "retry" ->
                    rq_pc' = "sleep" /\ UNCHANGED rq_result
             [] OTHER ->
                    rq_pc' = "raised" /\ UNCHANGED rq_result
    /\ UNCHANGED <<rq_endpoint, rq_attempt, rq_slept, notRqVars>>

\* line 347, then the next value of attempt (line 320) or line 348
RequestBackOff ==
    /\ rq_pc = "sleep"
    /\ rq_slept' = rq_slept + Pow2(rq_attempt)
    /\ IF rq_attempt < LastAttempt
       THEN /\ rq_attempt' = rq_attempt + 1
            /\ rq_pc' = "try"
            /\ UNCHANGED rq_result
       ELSE /\ rq_pc' = "done"
            /\ rq_result' = "None"
            /\ UNCHANGED rq_attempt
    /\ UNCHANGED <<rq_endpoint, rq_log, notRqVars>>

RequestNext == RequestAttempt \/ RequestBackOff

----------------------------------------------------------------------------
(* pipeline.py: process_channel and process_video on one database, for one  *)
(* channel.                                                                 *)

Videos == {"v1", "v2"}
NoRow == -1

\* the lists fetch_videos can return: what the playlist pages or the
\* extractor's entries hold, in their order (nothing removes a video_id that
\* comes twice)
VideoLists == UNION {[1..n -> Videos] : n \in 0..MaxVideos}

\* filter_new_videos, youtube.py lines 60-68
RECURSIVE FilterNewVideos(_, _)
FilterNewVideos(videos, processed) ==
    IF videos = <<>> THEN <<>>
    ELSE IF Head(videos) \in processed
    THEN FilterNewVideos(Tail(videos), processed)
    ELSE <<Head(videos)>> \o FilterNewVideos(Tail(videos), processed)

NoVideo == [video |-> "none", filtered |-> 0, recorded |-> 0]

ChannelInit ==
    /\ ch_flag = [v \in Videos |-> NoRow]
    /\ ch_pc = "idle"
    /\ ch_queue = <<>>
    /\ ch_cur = NoVideo
    /\ ch_last = [v \in Videos |-> "none"]
    /\ ch_on_flagged = FALSE

ChannelIdle ==
    /\ ch_flag = [v \in Videos |-> NoRow]
    /\ ch_pc = "done"
    /\ ch_queue = <<>>
    /\ ch_cur = NoVideo
    /\ ch_last = [v \in Videos |-> "none"]
    /\ ch_on_flagged = FALSE

\* process_channel, lines 319-326: the processed ids of the channel, the
\* videos fetched, the videos kept
ProcessChannelStart ==
    /\ ch_pc = "idle"
    /\ \E videos \in VideoLists :
           ch_queue' = FilterNewVideos(videos, {v \in Videos : ch_flag[v] = 1})
    /\ ch_pc' = "loop"
    /\ UNCHANGED <<ch_flag, ch_cur, ch_last, ch_on_flagged, notChVars>>

\* line 338 and process_video lines 246-262: the row of the video is written
\* with processed = 0, the audio is prepared and the segments are detected
\* and filtered
ProcessVideoBegin ==
    /\ ch_pc = "loop"
    /\ ch_queue # <<>>
    /\ \E n \in 0..MaxSegments :
           ch_cur' = [video |-> Head(ch_queue), filtered |-> n, recorded |-> 0]
    /\ ch_queue' = Tail(ch_queue)
    /\ ch_on_flagged' = (ch_on_flagged \/ ch_flag[Head(ch_queue)] = 1)
    /\ ch_flag' = [ch_flag EXCEPT ![Head(ch_queue)] = 0]        \* line 246
    /\ ch_last' = [ch_last EXCEPT ![Head(ch_queue)] = "running"]
    /\ ch_pc' = "segments"
    /\ UNCHANGED notChVars

\* lines 265-293: one iteration, the segment and its match are recorded
ProcessVideoSegment ==
    /\ ch_pc = "segments"
    /\ ch_cur.recorded < ch_cur.filtered
    /\ ch_cur' = [ch_cur EXCEPT !.recorded = @ + 1]
    /\ UNCHANGED <<ch_flag, ch_pc, ch_queue, ch_last, ch_on_flagged, notChVars>>

\* line 295: _mark_video_processed
ProcessVideoMark ==
    /\ ch_pc = "segments"
    /\ ch_cur.recorded = ch_cur.filtered
    /\ ch_flag' = [ch_flag EXCEPT ![ch_cur.video] = 1]
    /\ ch_pc' = "marked"
    /\ UNCHANGED <<ch_queue, ch_cur, ch_last, ch_on_flagged, notChVars>>

\* lines 296-312: the feedback template is written, process_video returns
ProcessVideoReturn ==
    /\ ch_pc = "marked"
    /\ ch_last' = [ch_last EXCEPT ![ch_cur.video] = "returned"]
    /\ ch_cur' = NoVideo
    /\ ch_pc' = "loop"
    /\ UNCHANGED <<ch_flag, ch_queue, ch_on_flagged, notChVars>>

\* an exception leaves process_video (prepare_audio, detect_song_segments,
\* audio_match, an insert, the write of the feedback template): nothing in
\* process_video or process_channel catches it, the run ends
ProcessVideoRaise ==
    /\ ch_pc \in {"segments", "marked"}
    /\ ch_last' = [ch_last EXCEPT ![ch_cur.video] = "failed"]
    /\ ch_cur' = NoVideo
    /\ ch_queue' = <<>>
    /\ ch_pc' = "idle"
    /\ UNCHANGED <<ch_flag, ch_on_flagged, notChVars>>

\* lines 347-352: no video is left, process_channel returns
ProcessChannelEnd ==
    /\ ch_pc = "loop"
    /\ ch_queue = <<>>
    /\ ch_pc' = "idle"
    /\ UNCHANGED <<ch_flag, ch_queue, ch_cur, ch_last, ch_on_flagged, notChVars>>

ChannelNext ==
    \/ ProcessChannelStart
    \/ ProcessVideoBegin
    \/ ProcessVideoSegment
    \/ ProcessVideoMark
    \/ ProcessVideoReturn
    \/ ProcessVideoRaise
    \/ ProcessChannelEnd

----------------------------------------------------------------------------
(* pipeline.py: the lyrics updates of collect_archived_comment_training,    *)
(* for one video.                                                           *)

HintTitles == {<<"w1">>, <<"W1", SP>>, <<"w3">>}
HintArtists == {<<"w2">>, <<SP, "w2">>}
Hint(title, artist) == [song_title |-> title, original_artist |-> artist]
HintCommentLists ==
    UNION {[1..n -> {Hint(t, a) : t \in HintTitles, a \in HintArtists}]
           : n \in 0..MaxComments}

\* line 437: the key of a comment
CommentKey(comment) ==
    <<Normalize(comment.song_title), Normalize(comment.original_artist)>>

\* lines 435-439 keyed by the hints as written
RECURSIVE UniqueSongsRawKey(_, _)
UniqueSongsRawKey(comments, unique) ==
    IF comments = <<>> THEN unique
    ELSE UniqueSongsRawKey(Tail(comments),
             IF \E i \in 1..Len(unique) : unique[i] = Head(comments)
             THEN unique ELSE Append(unique, Head(comments)))

\* lines 435-439: the values of unique_songs, a dict keeps insertion order
RECURSIVE UniqueSongs(_, _)
UniqueSongs(comments, unique) ==
    IF comments = <<>> THEN unique
    ELSE UniqueSongs(Tail(comments),
             IF \E i \in 1..Len(unique) :
                    CommentKey(unique[i]) = CommentKey(Head(comments))
             THEN unique ELSE Append(unique, Head(comments)))

\* find_song_id_by_title_artist, catalog.py lines 149-163; 0 for None
SongMatches(id, title, artist) ==
    /\ Normalize(SongArtist(id)) = Normalize(artist)
    /\ \/ Normalize(SongTitle(id)) = Normalize(title)
       \/ \E i \in 1..Len(SongAliases(id)) :
              Normalize(SongAliases(id)[i]) = Normalize(title)
FindSongIdByTitleArtist(title, artist, songs) ==
    IF \E id \in 1..songs : SongMatches(id, title, artist)
    THEN CHOOSE id \in 1..songs :
             /\ SongMatches(id, title, artist)
             /\ \A other \in 1..(id - 1) : ~SongMatches(other, title, artist)
    ELSE 0

\* has_song_lyrics, catalog.py lines 218-219
HasSongLyrics(song_id, store) == store[song_id] # "none"

LyricsInit ==
    /\ ly_comments \in HintCommentLists
    /\ ly_songs \in 0..MaxSongs
    /\ ly_store \in [1..MaxSongs -> {"none", "seed"}]
    /\ \A id \in 1..MaxSongs : id > ly_songs => ly_store[id] = "none"
    /\ ly_store0 = ly_store
    /\ ly_pc = "comments"
    /\ ly_unique = <<>>
    /\ ly_updates = <<>>
    /\ ly_writes = <<>>

LyricsIdle ==
    /\ ly_comments = <<>>
    /\ ly_songs = 0
    /\ ly_store = [id \in 1..MaxSongs |-> "none"]
    /\ ly_store0 = ly_store
    /\ ly_pc = "done"
    /\ ly_unique = <<>>
    /\ ly_updates = <<>>
    /\ ly_writes = <<>>

Update(song_id, comment, status) ==
    [song_id |-> song_id, song_title |-> comment.song_title,
     original_artist |-> comment.original_artist, status |-> status]

\* lines 433-439
CollectUniqueSongs ==
    /\ ly_pc = "comments"
    /\ ly_unique' = UniqueSongs(ly_comments, <<>>)
    /\ ly_pc' = "songs"
    /\ UNCHANGED <<ly_comments, ly_songs, ly_store, ly_store0, ly_updates,
                   ly_writes, notLyVars>>

\* the song of the next iteration of the loop of line 441
NextSong == ly_unique[Len(ly_updates) + 1]
NextSongId ==
    FindSongIdByTitleArtist(NextSong.song_title, NextSong.original_artist,
                            ly_songs)

\* lines 442-451
SongIdNotFound ==
    /\ ly_pc = "songs"
    /\ Len(ly_updates) < Len(ly_unique)
    /\ NextSongId = 0
    /\ ly_updates' = Append(ly_updates, Update(0, NextSong, "song_id_not_found"))
    /\ UNCHANGED <<ly_comments, ly_songs, ly_store, ly_store0, ly_pc,
                   ly_unique, ly_writes, notLyVars>>

\* lines 452-461
LyricsExist ==
    /\ ly_pc = "songs"
    /\ Len(ly_updates) < Len(ly_unique)
    /\ NextSongId # 0
    /\ HasSongLyrics(NextSongId, ly_store)
    /\ ly_updates' = Append(ly_updates, Update(NextSongId, NextSong, "exists"))
    /\ UNCHANGED <<ly_comments, ly_songs, ly_store, ly_store0, ly_pc,
                   ly_unique, ly_writes, notLyVars>>

\* lines 462-472: fetch_lyrics returns None
LyricsNotFound ==
    /\ ly_pc = "songs"
    /\ Len(ly_updates) < Len(ly_unique)
    /\ NextSongId # 0
    /\ ~HasSongLyrics(NextSongId, ly_store)
    /\ ly_updates' =
           Append(ly_updates, Update(NextSongId, NextSong, "lyrics_not_found"))
    /\ UNCHANGED <<ly_comments, ly_songs, ly_store, ly_store0, ly_pc,
                   ly_unique, ly_writes, notLyVars>>

\* lines 462-482: fetch_lyrics returns a result, upsert_song_lyrics writes it
LyricsStored ==
    /\ ly_pc = "songs"
    /\ Len(ly_updates) < Len(ly_unique)
    /\ NextSongId # 0
    /\ ~HasSongLyrics(NextSongId, ly_store)
    /\ \E source \in {"internal-api", "lyrics.ovh"} :
           ly_store' = [ly_store EXCEPT ![NextSongId] = source]
    /\ ly_writes' = Append(ly_writes,
           [song_id |-> NextSongId,
            had_lyrics |-> ly_store[NextSongId] # "none"])
    /\ ly_updates' = Append(ly_updates, Update(NextSongId, NextSong, "stored"))
    /\ UNCHANGED <<ly_comments, ly_songs, ly_store0, ly_pc, ly_unique,
                   notLyVars>>

\* the loop of line 441 is over
LyricsUpdatesDone ==
    /\ ly_pc = "songs"
    /\ Len(ly_updates) = Len(ly_unique)
    /\ ly_pc' = "done"
    /\ UNCHANGED <<ly_comments, ly_songs, ly_store, ly_store0, ly_unique,
                   ly_updates, ly_writes, notLyVars>>

LyricsNext ==
    \/ CollectUniqueSongs
    \/ SongIdNotFound
    \/ LyricsExist
    \/ LyricsNotFound
    \/ LyricsStored
    \/ LyricsUpdatesDone

----------------------------------------------------------------------------
(* Specifications: one per component, the others idle. *)

Init ==
    /\ DetectInit /\ FilterIdle /\ MatchIdle /\ RerankIdle
    /\ TrainIdle /\ SummaryIdle /\ PipelineIdle /\ ScorerIdle
    /\ ToolsIdle
    /\ RequestIdle
    /\ ChannelIdle
    /\ LyricsIdle
Next == DetectNext
Spec == Init /\ [][Next]_vars

InitFilter ==
    /\ DetectIdle /\ FilterInit /\ MatchIdle /\ RerankIdle
    /\ TrainIdle /\ SummaryIdle /\ PipelineIdle /\ ScorerIdle
    /\ ToolsIdle
    /\ RequestIdle
    /\ ChannelIdle
    /\ LyricsIdle
NextFilter == FilterCall
SpecFilter == InitFilter /\ [][NextFilter]_vars

InitMatch ==
    /\ DetectIdle /\ FilterIdle /\ MatchInit /\ RerankIdle
    /\ TrainIdle /\ SummaryIdle /\ PipelineIdle /\ ScorerIdle
    /\ ToolsIdle
    /\ RequestIdle
    /\ ChannelIdle
    /\ LyricsIdle
NextMatch == MatchNext
SpecMatch == InitMatch /\ [][NextMatch]_vars

\* RerankInit, TrainInit and PipelineInit set the catalog and the lyrics store
InitRerank ==
    /\ DetectIdle /\ FilterIdle /\ RerankInit
    /\ TrainIdle /\ SummaryIdle /\ PipelineIdle /\ ScorerIdle
    /\ ToolsIdle
    /\ RequestIdle
    /\ ChannelIdle
    /\ LyricsIdle
NextRerank == RerankNext
SpecRerank == InitRerank /\ [][NextRerank]_vars

InitTraining ==
    /\ DetectIdle /\ FilterIdle /\ TrainInit
    /\ SummaryIdle /\ PipelineIdle /\ ScorerIdle
    /\ ToolsIdle
    /\ RequestIdle
    /\ ChannelIdle
    /\ LyricsIdle
NextTraining == TrainNext
SpecTraining == InitTraining /\ [][NextTraining]_vars

InitSummary ==
    /\ DetectIdle /\ FilterIdle /\ MatchIdle /\ RerankIdle
    /\ TrainIdle /\ SummaryInit /\ PipelineIdle /\ ScorerIdle
    /\ ToolsIdle
    /\ RequestIdle
    /\ ChannelIdle
    /\ LyricsIdle
NextSummary == SummaryCall
SpecSummary == InitSummary /\ [][NextSummary]_vars

InitPipeline ==
    /\ DetectIdle /\ FilterIdle /\ PipelineInit
    /\ TrainIdle /\ SummaryIdle /\ ScorerIdle
    /\ ToolsIdle
    /\ RequestIdle
    /\ ChannelIdle
    /\ LyricsIdle
NextPipeline == PipelineNext
SpecPipeline == InitPipeline /\ [][NextPipeline]_vars

InitScorer ==
    /\ DetectIdle /\ FilterIdle /\ MatchIdle /\ RerankIdle
    /\ TrainIdle /\ SummaryIdle /\ PipelineIdle /\ ScorerInit
    /\ ToolsIdle
    /\ RequestIdle
    /\ ChannelIdle
    /\ LyricsIdle
NextScorer == ScorerNext
SpecScorer == InitScorer /\ [][NextScorer]_vars

\* the interpreter keeps running an operation that can take a step: weak
\* fairness of the steps of the operation
InitTools ==
    /\ DetectIdle /\ FilterIdle /\ MatchIdle /\ RerankIdle
    /\ TrainIdle /\ SummaryIdle /\ PipelineIdle /\ ScorerIdle
    /\ ToolsInit /\ RequestIdle
    /\ ChannelIdle
    /\ LyricsIdle
NextTools == ToolsNext
SpecTools == InitTools /\ [][NextTools]_vars /\ WF_vars(NextTools)

InitRequest ==
    /\ DetectIdle /\ FilterIdle /\ MatchIdle /\ RerankIdle
    /\ TrainIdle /\ SummaryIdle /\ PipelineIdle /\ ScorerIdle
    /\ ToolsIdle
    /\ RequestInit
    /\ ChannelIdle
    /\ LyricsIdle
NextRequest == RequestNext
SpecRequest == InitRequest /\ [][NextRequest]_vars

InitChannel ==
    /\ DetectIdle /\ FilterIdle /\ MatchIdle /\ RerankIdle
    /\ TrainIdle /\ SummaryIdle /\ PipelineIdle /\ ScorerIdle
    /\ ToolsIdle /\ RequestIdle
    /\ ChannelInit
    /\ LyricsIdle
NextChannel == ChannelNext
SpecChannel == InitChannel /\ [][NextChannel]_vars

InitLyrics ==
    /\ DetectIdle /\ FilterIdle /\ MatchIdle /\ RerankIdle
    /\ TrainIdle /\ SummaryIdle /\ PipelineIdle /\ ScorerIdle
    /\ ToolsIdle /\ RequestIdle /\ ChannelIdle
    /\ LyricsInit
NextLyrics == LyricsNext
SpecLyrics == InitLyrics /\ [][NextLyrics]_vars

----------------------------------------------------------------------------
(* Claims about the segment detector. *)

\* C1: the list returned by detect_song_segments is sorted by increasing
\* start_sec and its intervals do not overlap: each segment ends at or
\* before the start of the next one.
C1_SortedNonOverlapping ==
    pc = "done" =>
        \A i \in 1..(Len(segments) - 1) :
            /\ segments[i].start_sec < segments[i + 1].start_sec
            /\ segments[i].end_sec <= segments[i + 1].start_sec

\* a run that merged some raw intervals and still returned several segments
C1_Witness ==
    /\ pc = "done"
    /\ Len(segments) >= 2
    /\ Len(raw_segments) > Len(segments)

\* C2: in the merge pass, a raw interval whose gap to the preceding (possibly
\* already merged) interval is <= merge_gap_sec is merged into it, and one
\* whose gap is > merge_gap_sec + merge_confidence_bonus_sec is appended as
\* a new interval, whatever the confidences.
C2_MergeGapRule ==
    decision.taken =>
        /\ decision.gap <= params.merge_gap_sec =>
               /\ Len(merged) = decision.merged_before
               /\ merged[Len(merged)] = <<decision.prev[1], decision.current[2]>>
        /\ decision.gap > params.merge_gap_sec + params.merge_confidence_bonus_sec =>
               /\ Len(merged) = decision.merged_before + 1
               /\ merged[Len(merged)] = decision.current
               /\ merged[Len(merged) - 1] = decision.prev

\* a raw interval of low confidence merged, by a gap <= merge_gap_sec, into
\* an interval that was itself the result of a merge
C2_Witness ==
    /\ decision.taken
    /\ decision.gap <= params.merge_gap_sec
    /\ next_raw = 4
    /\ decision.prev # raw_segments[2]
    /\ ~AvgGe(decision.current_confidence, params.merge_confidence_threshold)
    /\ Len(merged) = 1

\* both intervals' average of the series scores is >= the merge threshold
BothAtLeast(scores, prev, current, threshold) ==
    /\ AvgGe(AverageScore(scores, prev), threshold)
    /\ AvgGe(AverageScore(scores, current), threshold)

\* C3 (as stated): the bonus is added to the allowed gap iff the average
\* per-second song probability of the previous interval and of the current
\* interval are both >= merge_confidence_threshold; otherwise the allowed gap
\* is exactly merge_gap_sec.
C3_BonusBySongProb ==
    decision.taken =>
        decision.allowed_gap =
            IF BothAtLeast(song_probs, decision.prev, decision.current,
                           params.merge_confidence_threshold)
            THEN params.merge_gap_sec + params.merge_confidence_bonus_sec
            ELSE params.merge_gap_sec

\* C3 (amended): the bonus is added iff the average per-second confidence
\* score (the model score when a model score is available, the song
\* probability otherwise) over the span of the previous, possibly merged,
\* interval and over the current interval are both >=
\* merge_confidence_threshold; otherwise the allowed gap is merge_gap_sec.
C3_BonusByConfidence ==
    decision.taken =>
        decision.allowed_gap =
            IF BothAtLeast(confidence_scores, decision.prev, decision.current,
                           params.merge_confidence_threshold)
            THEN params.merge_gap_sec + params.merge_confidence_bonus_sec
            ELSE params.merge_gap_sec

\* the bonus is granted on the model score although the song probability of
\* the current interval is below the threshold
C3_Witness ==
    /\ decision.taken
    /\ audio.svd_scores # <<>>
    /\ decision.allowed_gap =
           params.merge_gap_sec + params.merge_confidence_bonus_sec
    /\ ~AvgGe(AverageScore(song_probs, decision.current),
              params.merge_confidence_threshold)

----------------------------------------------------------------------------
(* Claims about the duration/confidence filter. *)

\* whether a is a subsequence of b picked by the strictly increasing index
\* map f
IsSubSeqBy(a, b, f) ==
    /\ \A i \in 1..Len(a) : a[i] = b[f[i]]
    /\ \A i \in 1..(Len(a) - 1) : f[i] < f[i + 1]

\* C4: filter_short_segments keeps a segment iff duration_sec >= min_duration
\* or confidence >= min_confidence, and the kept segments are in their input
\* order; with min_duration = 60 and min_confidence = 0.6 a 10-second segment
\* of confidence 0.95 is kept and one of confidence 0.4 is dropped.
C4_FilterIsOr ==
    flt_result.returned =>
        LET out == flt_result.value
            kept == {i \in 1..Len(flt_segments) :
                        \/ flt_segments[i].end_sec - flt_segments[i].start_sec
                               >= flt_params.min_duration
                        \/ flt_segments[i].confidence >= flt_params.min_confidence}
        IN  /\ Len(out) = Cardinality(kept)
            /\ \E f \in [1..Len(out) -> kept] : IsSubSeqBy(out, flt_segments, f)
            /\ (flt_params = [min_duration |-> 60, min_confidence |-> 60]) =>
                   \A i \in 1..Len(flt_segments) :
                       LET seg == flt_segments[i]
                       IN  seg.end_sec - seg.start_sec = 10 =>
                               /\ seg.confidence = 95 => seg \in Range(out)
                               /\ seg.confidence = 40 => seg \notin Range(out)

\* a short confident segment was kept and a short unconfident one dropped
C4_Witness ==
    /\ flt_result.returned
    /\ flt_params = [min_duration |-> 60, min_confidence |-> 60]
    /\ \E i, j \in 1..Len(flt_segments) :
           /\ i < j
           /\ DurationSec(flt_segments[i]) = 10 /\ flt_segments[i].confidence = 40
           /\ DurationSec(flt_segments[j]) = 10 /\ flt_segments[j].confidence = 95
           /\ flt_result.value = SubSeq(flt_segments, j, Len(flt_segments))
    /\ Len(flt_result.value) >= 2

----------------------------------------------------------------------------
(* Claims about the candidate matcher. *)

\* C5: audio_match is deterministic: two calls with identical audio
\* interval, confidence and catalog contents return identical candidate
\* lists (order, scores, method tags), whatever was called in between.
\* Stated for a call and the next call of audio_match, with any number of
\* other operations between the two.
C5_Deterministic ==
    [][(/\ am_call.made
        /\ am_call'.made
        /\ am_call'.input = am_call.input
        /\ am_call'.store = am_call.store)
       => (/\ am_call'.raised = am_call.raised
           /\ am_call'.result = am_call.result)]_vars

\* C6: for a non-empty catalog, audio_match returns exactly one candidate per
\* catalog song, ordered by non-increasing match_score, candidates of equal
\* match_score in catalog order. (The catalog is the index the call fetched;
\* the property is of the list a call returns.)
C6_RankedOncePerSong ==
    (am_call.made /\ ~am_call.raised /\ am_call.index # <<>>) =>
        LET r == am_call.result
            index == am_call.index
        IN  /\ Len(r) = Len(index)
            /\ \A k \in 1..Len(index) :
                   Cardinality({i \in 1..Len(r) : r[i].song_id = index[k].song_id}) = 1
            /\ \A i, j \in 1..Len(r) :
                   i < j =>
                       /\ r[i].match_score >= r[j].match_score
                       /\ r[i].match_score = r[j].match_score
                              => r[i].song_id < r[j].song_id

\* two songs matched by embedding with the same score, returned in catalog
\* order
C6_Witness ==
    /\ am_call.made /\ ~am_call.raised
    /\ Len(am_call.result) = 2
    /\ am_call.result[1].match_score = am_call.result[2].match_score
    /\ am_call.result[1].method = "audio-embedding"
    /\ am_call.result[1].song_id = 1

\* embedding extraction fails for this call: the audio file is missing or
\* unreadable, its sample width is not 2 bytes, or the fingerprint extractor
\* is unavailable or failing
ExtractionFails(in, chroma) ==
    \/ in.audio \in {"unopenable", "width1"}
    \/ chroma # "fingerprinter"

\* C7: when embedding extraction fails inside audio_match, audio_match does
\* not raise: it returns candidates scored by the fallback path.
C7_ExtractionFailureFallsBack ==
    (am_call.made /\ ExtractionFails(am_call.input, chromaprint)) =>
        /\ ~am_call.raised
        /\ \A i \in 1..Len(am_call.result) :
               am_call.result[i].method = "audio-fallback"

\* C8: with an empty catalog, audio_match returns an empty candidate list and
\* does not raise, for any audio path and interval.
C8_EmptyCatalogEmptyList ==
    (am_call.made /\ am_call.store = <<>>) =>
        /\ ~am_call.raised
        /\ am_call.result = <<>>

----------------------------------------------------------------------------
(* Claims about the lyrics reranker. *)

\* the first candidate among those of the highest match_score
FirstOfHighestScore(candidates) ==
    candidates[CHOOSE i \in 1..Len(candidates) :
                   /\ \A j \in 1..Len(candidates) :
                          candidates[j].match_score <= candidates[i].match_score
                   /\ \A j \in 1..(i - 1) :
                          candidates[j].match_score < candidates[i].match_score]

\* the transcript is empty or holds white space only
BlankTranscript == \A i \in 1..Len(rr_args.transcript) : rr_args.transcript[i] = SP

\* C9: with an empty (or white-space-only) transcript, match_lyrics gives
\* every candidate the lyric score 0.0, and rerank_with_lyrics returns the
\* first of the candidates of highest acoustic match_score.
C9_EmptyTranscriptKeepsAcousticOrder ==
    (rr_call.returned /\ rr_args.candidates # <<>> /\ BlankTranscript) =>
        /\ Len(rr_call.lyrics_scores) = Len(rr_args.candidates)
        /\ \A i \in 1..Len(rr_args.candidates) :
               /\ rr_call.lyrics_scores[i].song_id = rr_args.candidates[i].song_id
               /\ rr_call.lyrics_scores[i].score = 0
        /\ rr_call.best = FirstOfHighestScore(rr_args.candidates)

\* a white-space-only transcript, two candidates of equal acoustic score, the
\* first of them (the song of id 2) returned, with a fuzzy backend installed
C9_Witness ==
    /\ rr_call.returned
    /\ rr_args.transcript = <<SP, SP>>
    /\ Len(rr_args.candidates) = 2
    /\ rr_args.candidates[1].match_score = rr_args.candidates[2].match_score
    /\ rr_args.candidates[1].song_id = 2
    /\ rr_call.best = rr_args.candidates[1]
    /\ lyrics_store[2] # NoLyrics
    /\ rapidfuzz = 80

\* the corpus of a song: its stored lyrics if any, else title, artist and
\* aliases
CorpusTokens(song_id) ==
    IF lyrics_store[song_id] # NoLyrics
    THEN {"w1", "w3", "w4", "w6"} \ (IF song_id = 2 THEN {"w1", "w4"} ELSE {})
    ELSE CASE song_id = 1 -> {"w1", "w2"}
           [] song_id = 2 -> {"w3", "w2", "w1"}
           [] OTHER -> {"w4", "w1", "w5"}

TranscriptTokens == Range(rr_args.transcript) \ {SP}

\* C10 (as stated): for a non-empty transcript and no fuzzy backend, the
\* lyric score of a candidate is round(min(0.99, similarity), 2) with
\* similarity = |transcript tokens /\ corpus tokens| / max(1, |corpus tokens|);
\* it depends on the text only, not on the candidate's match_score.
C10_LyricScoreIsTextSimilarity ==
    (rr_call.returned /\ rr_args.candidates # <<>> /\ ~BlankTranscript
       /\ rapidfuzz = NoFuzz) =>
        \A i \in 1..Len(rr_args.candidates) :
            LET corpus == CorpusTokens(rr_args.candidates[i].song_id)
                k == Cardinality(TranscriptTokens \cap corpus)
                n == Max2(1, Cardinality(corpus))
            IN  rr_call.lyrics_scores[i].score
                    = RoundHalfEven(Min2(99 * n, 100 * k), n)

\* C10 (amended): for a non-empty transcript and no fuzzy backend, the lyric
\* score of a candidate is round(min(0.99, 0.5 * similarity
\* + 0.1 * match_score), 2), with the same similarity and corpus: it depends
\* on the candidate's acoustic match_score as well as on the text.
C10_LyricScoreBlend ==
    (rr_call.returned /\ rr_args.candidates # <<>> /\ ~BlankTranscript
       /\ rapidfuzz = NoFuzz) =>
        \A i \in 1..Len(rr_args.candidates) :
            LET corpus == CorpusTokens(rr_args.candidates[i].song_id)
                k == Cardinality(TranscriptTokens \cap corpus)
                n == Max2(1, Cardinality(corpus))
                m == rr_args.candidates[i].match_score
            IN  rr_call.lyrics_scores[i].score
                    = RoundHalfEven(Min2(990 * n, 500 * k + m * n), 10 * n)

\* two candidates of the same song text similarity 0 but different acoustic
\* scores get different lyric scores; another one matches its lyrics
C10_Witness ==
    /\ rr_call.returned /\ ~BlankTranscript /\ rapidfuzz = NoFuzz
    /\ Len(rr_args.candidates) = 2
    /\ rr_args.transcript = <<"w3", "w3">>
    /\ lyrics_store[1] = NoLyrics /\ lyrics_store[2] # NoLyrics
    /\ rr_args.candidates[1].song_id = 1
    /\ rr_args.candidates[1].match_score = 90
    /\ rr_call.lyrics_scores[1].score = 9
    /\ rr_call.lyrics_scores[2].score > 9

\* C11: for a non-empty candidate list, rerank_with_lyrics returns the
\* candidate of maximal total = match_score + segment.confidence * 0.05
\* + lyric_score * 0.1, and of several candidates of maximal total the one
\* that comes first in the input list. (Totals in 1e-5ths.)
C11_MaxTotalFirstInInput ==
    (rr_call.returned /\ rr_args.candidates # <<>>) =>
        LET c == rr_args.candidates
            total(i) == 1000 * c[i].match_score
                        + 50 * rr_args.segment_confidence
                        + 100 * ScoreOf(rr_call.lyrics_scores, c[i].song_id)
        IN  \E i \in 1..Len(c) :
                /\ rr_call.best = c[i]
                /\ \A j \in 1..Len(c) : total(j) <= total(i)
                /\ \A j \in 1..(i - 1) : total(j) < total(i)

\* the lyric score decides: the candidate returned is the second of the list
\* and has the lower acoustic score
C11_Witness ==
    /\ rr_call.returned
    /\ Len(rr_args.candidates) = 2
    /\ rr_call.best = rr_args.candidates[2]
    /\ rr_args.candidates[2].match_score < rr_args.candidates[1].match_score
    /\ rr_call.lyrics_scores[2].score > rr_call.lyrics_scores[1].score

\* C12: rerank_with_lyrics called with an empty candidate list returns the
\* "no decision" value (None), without raising and without a call of
\* match_lyrics, whatever the segment and the transcript.
C12_NoCandidatesNoDecision ==
    (rr_call.returned /\ rr_args.candidates = <<>>) =>
        /\ rr_call.best = NoCandidate
        /\ ~rr_call.matched_lyrics
        /\ rr_call.lyrics_scores = <<>>

\* no candidate, a transcript with words in it, a catalog with songs
C12_Witness ==
    /\ rr_call.returned
    /\ Len(catalog_store) = 2
    /\ rr_args.candidates = <<>>
    /\ rr_args.transcript = <<"w1", "w3">>
    /\ rr_call.best = NoCandidate

----------------------------------------------------------------------------
(* Claims about the training-sample builder. *)

\* C13: build_training_samples completes without error for every comment and
\* returns exactly one TrainingSample per comment, in the order of the
\* comments, each with the timestamp and the expected title and artist of
\* its comment, the matched title and artist, match_score, lyric_score and
\* is_match.
C13_OneSamplePerHint ==
    /\ tr_pc # "raised"
    /\ tr_pc = "done" =>
           /\ Len(tr_samples) = Len(tr_args.comments)
           /\ \A i \in 1..Len(tr_samples) :
                  /\ {"matched_title", "matched_artist", "match_score",
                      "lyric_score", "is_match"} \subseteq DOMAIN tr_samples[i]
                  /\ tr_samples[i].timestamp_sec = tr_args.comments[i].timestamp_sec
                  /\ tr_samples[i].expected_title = tr_args.comments[i].song_title
                  /\ tr_samples[i].expected_artist
                         = tr_args.comments[i].original_artist

\* C14: summarize_training does not raise; for no sample it returns total 0,
\* matched 0, accuracy 0 and lyrics_avg_score 0; for some samples accuracy is
\* matched / total (to the 3 decimals it is rounded to) and lyrics_avg_score
\* is the mean of the lyric_score of the samples.
C14_SummaryOfSamples ==
    sm_call.made =>
        /\ ~sm_call.raised
        /\ sm_samples = <<>> =>
               sm_call.value = [total |-> 0, matched |-> 0, accuracy |-> 0,
                                lyrics_avg_score |-> 0]
        /\ sm_samples # <<>> =>
               LET total == Len(sm_samples)
                   matched == Cardinality({i \in 1..total : sm_samples[i].is_match})
               IN  /\ sm_call.value.total = total
                   /\ sm_call.value.matched = matched
                   /\ sm_call.value.accuracy = RoundHalfEven(1000 * matched, total)
                   /\ \A i \in 1..total : HasLyricScore(sm_samples[i])
                   /\ sm_call.value.lyrics_avg_score
                          = RoundHalfEven(
                                10 * SumSeq([i \in 1..total |->
                                                 sm_samples[i].lyric_score]),
                                total)

\* C15: the window handed to the matcher for a comment is
\* [max(0, timestamp - window_sec), timestamp + window_sec]: its start is
\* never negative and it is symmetric around the timestamp whenever
\* timestamp >= window_sec.
C15_WindowClampedSymmetric ==
    /\ Len(tr_windows) <= Len(tr_args.comments)
    /\ \A k \in 1..Len(tr_windows) :
           LET t == tr_args.comments[k].timestamp_sec
               w == tr_args.window_sec
               lo == IF t - w > 0 THEN t - w ELSE 0
           IN  /\ tr_windows[k].start_sec = lo
               /\ tr_windows[k].end_sec = t + w
               /\ tr_windows[k].start_sec >= 0
               /\ t >= w => t - tr_windows[k].start_sec = tr_windows[k].end_sec - t

\* two comments went to the matcher: the window of the first is clamped at
\* 0, the window of the second is symmetric
C15_Witness ==
    /\ tr_pc = "done"
    /\ Len(tr_windows) = 2
    /\ tr_args.window_sec = 30
    /\ tr_windows[1] = [start_sec |-> 0, end_sec |-> 40, confidence |-> 85]
    /\ tr_windows[2] = [start_sec |-> 15, end_sec |-> 75, confidence |-> 85]

----------------------------------------------------------------------------
(* Claims about the detector's inputs. *)

\* C16: detect_song_segments returns an empty list, and neither raises nor
\* returns segments, whenever the audio file is missing or cannot be read
\* and decoded as audio.
C16_UnreadableAudioGivesEmptyList ==
    (~audio.exists \/ ~audio.decodable) =>
        /\ pc # "raised"
        /\ segments = <<>>
        /\ pc \in {"start", "done"}

\* C19: the label sub-score of every second is 0.5 when no classifier is
\* available, and with a classifier 1.0 for music, 0.3 for speech and 0.1
\* for noise.
C19_LabelScorePrior ==
    \A i \in 1..Len(label_scores) :
        IF audio.labels = <<>>
        THEN label_scores[i] = ScoreOne \div 2
        ELSE /\ audio.labels[i] = "music" => label_scores[i] = ScoreOne
             /\ audio.labels[i] = "speech" => label_scores[i] = (3 * ScoreOne) \div 10
             /\ audio.labels[i] = "noise" => label_scores[i] = ScoreOne \div 10

----------------------------------------------------------------------------
(* Claims about the catalog snapshot. *)

\* C20: once get_catalog_index has built its snapshot, every later call
\* returns that same snapshot, whatever is written to the catalog store and
\* whatever calls intervene, calls naming another db_path included (nothing
\* in the worker invalidates the cache). Stated for the snapshots two
\* successive calls of audio_match get from get_catalog_index().
C20_SnapshotNeverRefreshed ==
    [][(/\ am_call.made /\ ~am_call.raised
        /\ am_call'.made /\ ~am_call'.raised)
       => am_call'.index = am_call.index]_vars

----------------------------------------------------------------------------
(* Claims about the pipeline's results and the model scorer. *)

\* the "no result" value of the results: title and artist "unknown",
\* confidence 0.0
IsNoResult(match) ==
    /\ match.song_title = Unknown
    /\ match.original_artist = Unknown
    /\ match.confidence = 0

\* C17: in the results of process_video, a segment for which there was no
\* candidate to choose from carries the "no result" value, and a consumer
\* can always tell it from a segment matched to a catalog song, also when
\* that match has confidence 0: the "no result" value marks exactly the
\* segments without decision.
C17_NoResultDistinguishable ==
    \A i \in 1..Len(pv_matches) :
        IsNoResult(pv_matches[i]) <=> ~pv_decided[i]

\* C18: the scorer tries the custom model, then the voice-activity pipeline,
\* then the vocal-isolation score, in that order, and returns the vector of
\* the first stage that succeeds; a stage that is unavailable or raises hands
\* over to the next one, and when all three fail the scorer returns "no
\* score" without raising.
C18_ScorerChainNeverRaises ==
    /\ sc_pc # "raised"
    /\ \E n \in 0..3 : sc_tried = SubSeq(<<"custom", "pyannote", "vocal">>, 1, n)
    /\ sc_pc = "done" /\ sc_tried # <<>> =>
           IF sc_env.custom = "ok"
           THEN /\ sc_tried = <<"custom">>
                /\ sc_result = NormalizeScores(sc_env.custom_scores,
                                               sc_env.total_seconds)
           ELSE IF sc_env.pyannote = "ok"
           THEN /\ sc_tried = <<"custom", "pyannote">>
                /\ sc_result = PyannoteScores(sc_env.total_seconds)
           ELSE IF sc_env.vocal = "ok"
           THEN /\ sc_tried = <<"custom", "pyannote", "vocal">>
                /\ sc_result = NormalizeScores(sc_env.vocal_rms,
                                               sc_env.total_seconds)
           ELSE /\ sc_tried = <<"custom", "pyannote", "vocal">>
                /\ sc_result = NoScores

----------------------------------------------------------------------------
(* Claims about the raw intervals, the confidence and the merge pass. *)

\* the seconds (0-based) of the series whose probability is >= min_song_prob
SongSeconds == {i \in 0..(Len(song_probs) - 1) :
                    song_probs[i + 1] >= params.min_song_prob}

\* <<s, e>> is a maximal run of song seconds, as a half-open pair
IsMaximalRun(s, e) ==
    /\ 0 <= s /\ s < e /\ e <= Len(song_probs)
    /\ \A i \in s..(e - 1) : i \in SongSeconds
    /\ s = 0 \/ (s - 1) \notin SongSeconds
    /\ e = Len(song_probs) \/ e \notin SongSeconds

\* C22: _segments_from_probs returns exactly the maximal runs of consecutive
\* seconds whose probability is >= min_song_prob (equality counts as inside),
\* in order, as half-open pairs ending at the first second below the
\* threshold or at the series length; one-second runs included.
C22_RawSegmentsAreMaximalRuns ==
    pc \in {"merge", "build", "done"} =>
        /\ \A k \in 1..Len(raw_segments) :
               IsMaximalRun(raw_segments[k][1], raw_segments[k][2])
        /\ \A k \in 1..(Len(raw_segments) - 1) :
               raw_segments[k][2] < raw_segments[k + 1][1]
        /\ \A i \in SongSeconds :
               \E k \in 1..Len(raw_segments) :
                   raw_segments[k][1] <= i /\ i < raw_segments[k][2]

\* a series with a one-second run whose probability equals the threshold,
\* and a last run that reaches the end of the series
C22_Witness ==
    /\ pc = "done"
    /\ Len(raw_segments) >= 2
    /\ \E k \in 1..Len(raw_segments) :
           /\ raw_segments[k][2] = raw_segments[k][1] + 1
           /\ song_probs[raw_segments[k][2]] = params.min_song_prob
    /\ raw_segments[Len(raw_segments)][2] = Len(song_probs)

\* the sum of series[i] for the seconds s <= i < e (0-based)
RECURSIVE SumOver(_, _, _)
SumOver(series, s, e) ==
    IF s >= e THEN 0 ELSE series[s + 1] + SumOver(series, s + 1, e)

\* the model-confidence series of the run, in 1e-7ths: the model scores when
\* a model scorer answered, else the song probabilities themselves
ModelConfidenceSeries ==
    IF audio.svd_scores # <<>>
    THEN [i \in 1..Len(audio.svd_scores) |-> 1000 * audio.svd_scores[i]]
    ELSE song_probs

\* C23: every segment returned by detect_song_segments has confidence equal
\* to the 50/50 blend of the mean song probability over its span and the mean
\* model-confidence score over its span (the same series when no model is
\* present), clamped to [0.5, 0.99] and rounded to 2 decimals; so confidence
\* lies in [0.5, 0.99].
C23_ConfidenceIsClampedBlend ==
    pc = "done" =>
        \A k \in 1..Len(segments) :
            LET s == segments[k].start_sec
                e == segments[k].end_sec
                total == SumOver(song_probs, s, e)
                         + SumOver(ModelConfidenceSeries, s, e)
                \* one hundredth of the divisor 2 * (e - s), in 1e-7ths
                unit == 2 * (e - s) * (ProbOne \div 100)
                clamped == Min2(99 * unit, Max2(50 * unit, total))
            IN  /\ s < e
                /\ segments[k].confidence = RoundHalfEven(clamped, unit)
                /\ 50 <= segments[k].confidence
                /\ segments[k].confidence <= 99

\* a run with model scores that merged raw intervals over a gap and returned
\* a segment whose blend is strictly inside the clamp, next to a clamped one
C23_Witness ==
    /\ pc = "done"
    /\ audio.svd_scores # <<>>
    /\ Len(raw_segments) > Len(segments)
    /\ \E k \in 1..Len(segments) :
           segments[k].confidence > 50 /\ segments[k].confidence < 99
    /\ \E k \in 1..Len(segments) : segments[k].confidence = 50

\* the returned intervals that contain the raw interval r entirely
Containing(r) ==
    {k \in 1..Len(merged) : merged[k][1] <= r[1] /\ r[2] <= merged[k][2]}

\* C26: after the merge pass, two consecutive returned intervals are
\* separated by a gap strictly greater than merge_gap_sec, and every raw
\* interval lies entirely inside exactly one returned interval.
C26_MergedGapsAndCover ==
    pc \in {"build", "done"} =>
        /\ \A k \in 1..(Len(merged) - 1) :
               merged[k + 1][1] - merged[k][2] > params.merge_gap_sec
        /\ \A j \in 1..Len(raw_segments) :
               Cardinality(Containing(raw_segments[j])) = 1

\* a pass that merged two raw intervals and kept a third one apart, at the
\* smallest gap that keeps intervals apart
C26_Witness ==
    /\ pc = "build"
    /\ Len(merged) = 2
    /\ Len(raw_segments) = 3
    /\ merged[2][1] - merged[1][2] = params.merge_gap_sec + 1

----------------------------------------------------------------------------
(* Claims about the fitting of a score vector. *)

\* the vector the stage that answered handed to _normalize_scores
FittedInput ==
    IF sc_tried = <<"custom">> THEN sc_env.custom_scores ELSE sc_env.vocal_rms

\* the scorer returned a vector that went through _normalize_scores
FittedReturned ==
    /\ sc_pc = "done"
    /\ \/ sc_tried = <<"custom">> /\ sc_env.custom = "ok"
       \/ sc_tried = <<"custom", "pyannote", "vocal">> /\ sc_env.vocal = "ok"

\* C24: _normalize_scores returns exactly total_seconds values; the first
\* min(len(scores), total_seconds) of them are the scaled input scores at the
\* same indices, the rest (for a shorter input) are 0.0, and a longer input
\* loses its tail.
C24_FittedIndexForIndex ==
    FittedReturned =>
        LET scores == FittedInput
            top == IF MaxOfSeq(scores) = 0 THEN 1 ELSE MaxOfSeq(scores)
        IN  /\ Len(sc_result) = sc_env.total_seconds
            /\ \A i \in 1..sc_env.total_seconds :
                   IF i <= Len(scores)
                   THEN sc_result[i] = (scores[i] * ScoreOne) \div top
                   ELSE sc_result[i] = 0

\* a three-second vector padded to five seconds
C24_Witness ==
    /\ FittedReturned
    /\ sc_tried = <<"custom">>
    /\ sc_env.custom_scores = <<200, 400, 400>>
    /\ sc_env.total_seconds = 5
    /\ sc_result = <<ScoreOne \div 2, ScoreOne, ScoreOne, 0, 0>>

----------------------------------------------------------------------------
(* Claims about the fallback score. *)

\* the candidates of the last call that were scored on the fallback path:
\* no segment embedding, or no embedding stored for the song
OnFallbackPath(c) ==
    am_call.fallback \/ am_call.index[c.song_id].embedding = NoEmbedding

\* clamp(base - offset, 0, 0.99) in 1/6000ths, for the candidate c of the
\* last call: base = 0.6 + confidence * 0.2 + min(1, duration / 240) * 0.2,
\* offset = (catalog index + int(start_sec) mod 3) * 0.03
ClampedFallback(c) ==
    LET start_sec == am_call.input.interval[1]
        end_sec == am_call.input.interval[2]
        confidence == IF am_call.input.confidence = NoConfidence THEN 80
                      ELSE am_call.input.confidence
        duration == IF end_sec > start_sec THEN end_sec - start_sec ELSE 0
        factor == IF duration > 240 THEN 240 ELSE duration
        base == 3600 + 12 * confidence + 5 * factor
        offset == ((c.song_id - 1) + (start_sec % 3)) * 180
    IN  Max2(0, Min2(5940, base - offset))

\* C25 as stated: the match_score of a song scored on the fallback path is
\* clamp(base - offset, 0, 0.99) itself.
C25_FallbackScoreUnrounded ==
    (am_call.made /\ ~am_call.raised) =>
        \A i \in 1..Len(am_call.result) :
            LET c == am_call.result[i]
            IN  OnFallbackPath(c) => 60 * c.match_score = ClampedFallback(c)

\* C25: the match_score of a song scored on the fallback path is
\* clamp(base - offset, 0, 0.99) rounded to 2 decimals, and the candidate is
\* tagged with the fallback method; for one call, the fallback scores are
\* non-increasing in catalog position.
C25_FallbackScoreRounded ==
    (am_call.made /\ ~am_call.raised) =>
        \A i \in 1..Len(am_call.result) :
            LET c == am_call.result[i]
            IN  /\ OnFallbackPath(c) <=> c.method = "audio-fallback"
                /\ OnFallbackPath(c) =>
                       /\ c.match_score = RoundHalfEven(ClampedFallback(c), 60)
                       /\ \A j \in 1..Len(am_call.result) :
                              LET d == am_call.result[j]
                              IN  (OnFallbackPath(d) /\ c.song_id < d.song_id)
                                      => c.match_score >= d.match_score

\* two songs scored on the fallback path for an interval of 100 seconds
\* starting at second 4: 0.8433.. - 0.03 and 0.8433.. - 0.06, rounded
C25_Witness ==
    /\ am_call.made /\ ~am_call.raised
    /\ am_call.input.interval = <<4, 104>>
    /\ Len(am_call.result) = 2
    /\ am_call.result[1].method = "audio-fallback"
    /\ am_call.result[2].method = "audio-fallback"
    /\ am_call.result[1].match_score = 81
    /\ am_call.result[2].match_score = 78

----------------------------------------------------------------------------
(* Claims about the selection inside the training-sample builder. *)

\* C27: with use_lyrics_rerank enabled, the candidate build_training_samples
\* chooses for a comment is the candidate rerank_with_lyrics returns for the
\* same candidate list and transcript and a segment of confidence 0.85 over
\* the comment's window.
C27_TrainingChoiceIsRerank ==
    tr_args.use_lyrics_rerank =>
        \A k \in 1..Len(tr_choices) :
            LET ch == tr_choices[k]
            IN  /\ ch.segment.confidence = 85
                /\ ch.best = RerankWithLyricsOf(ch.segment, ch.transcript,
                                                ch.candidates, ch.index,
                                                lyrics_store, rapidfuzz)

\* a comment for which the transcript makes the second of two candidates of
\* equal acoustic score win
C27_Witness ==
    /\ tr_args.use_lyrics_rerank
    /\ Len(tr_choices) >= 1
    /\ Len(tr_choices[1].candidates) = 2
    /\ tr_choices[1].transcript = <<"w3">>
    /\ tr_choices[1].candidates[1].match_score
           = tr_choices[1].candidates[2].match_score
    /\ tr_choices[1].best = tr_choices[1].candidates[2]

----------------------------------------------------------------------------
(* Claims about the operations that wait for an external tool. *)

\* C21: no operation blocks indefinitely: every call of an external tool
\* (demucs, ffmpeg, the classifier) is bounded by a timeout, so that an
\* operation whose tool never responds still returns (or fails) instead of
\* waiting forever.
C21_NoOperationBlocksForever == <>(tl_pc \in {"done", "raised"})

----------------------------------------------------------------------------
(* Claims about the requests of the crawler. *)

NetworkErrors == {"http_error", "url_error"}

\* C29: _youtube_api_request makes at most 3 HTTP attempts; it makes another
\* attempt, after a back-off, only when the attempt raised HTTPError or
\* URLError; it returns the decoded payload on the first 200 response,
\* returns None at once on another status or a JSON decode error, and returns
\* None when the third attempt has failed.
C29_AtMostThreeAttempts ==
    /\ Len(rq_log) <= 3
    /\ \A k \in 1..(Len(rq_log) - 1) : rq_log[k] \in NetworkErrors
    /\ (rq_pc = "done" /\ rq_log # <<>>) =>
           LET last == rq_log[Len(rq_log)]
           IN  /\ rq_result = "payload" <=> last = "ok200"
               /\ rq_result = "None" <=> last # "ok200"
               /\ last \in {"ok200", "other_status", "bad_json"} =>
                      rq_slept = Pow2(Len(rq_log)) - 2
               /\ last \in NetworkErrors => Len(rq_log) = 3
               /\ last # "other_error"

\* two attempts that failed with a network error, then a payload that is not
\* JSON: None, after 2 + 4 seconds of back-off
C29_Witness ==
    /\ rq_pc = "done"
    /\ rq_log = <<"url_error", "http_error", "bad_json">>
    /\ rq_slept = 6
    /\ rq_result = "None"

----------------------------------------------------------------------------
(* Claims about the processed flag. *)

----------------------------------------------------------------------------
(* Claims about the lyrics updates of the comment training. *)

CommentKeys == {CommentKey(ly_comments[i]) : i \in 1..Len(ly_comments)}
UpdateKey(update) ==
    <<Normalize(update.song_title), Normalize(update.original_artist)>>

\* C30: each distinct (normalized title, normalized artist) pair among the
\* hints of a video is handled once and has exactly one entry of
\* lyrics_updates; lyrics are written only for a song found in the catalog
\* that had no stored lyrics at that moment, so that lyrics already stored
\* are never overwritten.
C30_OneUpdatePerPairNoOverwrite ==
    /\ \A i, j \in 1..Len(ly_updates) :
           UpdateKey(ly_updates[i]) = UpdateKey(ly_updates[j]) => i = j
    /\ \A i \in 1..Len(ly_updates) : UpdateKey(ly_updates[i]) \in CommentKeys
    /\ ly_pc = "done" =>
           /\ Len(ly_updates) = Cardinality(CommentKeys)
           /\ \A key \in CommentKeys :
                  \E i \in 1..Len(ly_updates) : UpdateKey(ly_updates[i]) = key
    /\ \A i \in 1..Len(ly_writes) :
           /\ ly_writes[i].song_id \in 1..ly_songs
           /\ ~ly_writes[i].had_lyrics
    /\ Len(ly_writes) =
           Cardinality({i \in 1..Len(ly_updates) : ly_updates[i].status = "stored"})
    /\ \A id \in 1..MaxSongs : ly_store0[id] # "none" => ly_store[id] = ly_store0[id]

\* three comments, two of them with one normalized pair written in two ways;
\* one song had lyrics, the other did not and got them
C30_Witness ==
    /\ ly_pc = "done"
    /\ Len(ly_comments) = 3
    /\ Len(ly_updates) = 2
    /\ \E i, j \in 1..3 :
           /\ ly_comments[i] # ly_comments[j]
           /\ CommentKey(ly_comments[i]) = CommentKey(ly_comments[j])
    /\ \E i \in 1..2 : ly_updates[i].status = "exists"
    /\ \E i \in 1..2 : ly_updates[i].status = "stored"
    /\ Len(ly_writes) = 1

====
